---- MODULE Spec2Model ----
(***************************************************************************)
(* Model of the retrieval-augmented answering service of student-manager:  *)
(* app/services/prompt_engineering.py (query classifier, relevance         *)
(* optimizer, context prioritizer), app/services/ai_service.py (vector     *)
(* store build and refresh, completion client, chat pipeline) and          *)
(* app/routers/chatbot.py (the query and refresh-knowledge handlers).      *)
(*                                                                         *)
(* Text is modelled as a sequence of one-character strings, so that        *)
(* lower-casing, substring search, whitespace tokenisation and joining are *)
(* computed the way the Python code computes them.                         *)
(***************************************************************************)
EXTENDS Integers, Sequences, FiniteSets, TLC

(***************************************************************************)
(* Text primitives (Python str operations used by the code).               *)
(***************************************************************************)
UpperLetters == <<"A","B","C","D","E","F","G","H","I","J","K","L","M","N","O","P","Q","R","S","T","U","V","W","X","Y","Z">>
LowerLetters == <<"a","b","c","d","e","f","g","h","i","j","k","l","m","n","o","p","q","r","s","t","u","v","w","x","y","z">>
Digits == {"0", "1", "2", "3", "4", "5", "6", "7", "8", "9"}
Whitespace == {" ", "\n", "\t"}

\* str.lower() on one character.
lower_char(c) ==
    IF \E i \in 1..Len(UpperLetters) : UpperLetters[i] = c
    THEN LowerLetters[CHOOSE i \in 1..Len(UpperLetters) : UpperLetters[i] = c]
    ELSE c

\* str.lower()
lower(s) == [i \in 1..Len(s) |-> lower_char(s[i])]

\* Python's  needle in hay  on strings: needle is a contiguous substring.
str_in(needle, hay) ==
    \E i \in 0..(Len(hay) - Len(needle)) :
        \A j \in 1..Len(needle) : hay[i + j] = needle[j]

\* set(s.split()): the maximal runs of non-whitespace characters of s.
split_set(s) ==
    { SubSeq(s, i, j) : <<i, j>> \in
        { p \in (1..Len(s)) \X (1..Len(s)) :
            /\ p[1] <= p[2]
            /\ \A k \in p[1]..p[2] : s[k] \notin Whitespace
            /\ (p[1] = 1 \/ s[p[1] - 1] \in Whitespace)
            /\ (p[2] = Len(s) \/ s[p[2] + 1] \in Whitespace) } }

RECURSIVE str_join(_, _)
\* sep.join(parts)
str_join(sep, parts) ==
    IF parts = <<>> THEN <<>>
    ELSE IF Len(parts) = 1 THEN parts[1]
    ELSE parts[1] \o sep \o str_join(sep, Tail(parts))

Min(a, b) == IF a <= b THEN a ELSE b

(***************************************************************************)
(* Query classifier: PromptTemplates._classify_query_type.                 *)
(***************************************************************************)
ComparisonKeywords == << <<"c","o","m","p","a","r","e">>, <<"d","i","f","f","e","r","e","n","c","e">>, <<"v","e","r","s","u","s">>, <<"v","s">>, <<"a","g","a","i","n","s","t">> >>
RankingKeywords == << <<"t","o","p">>, <<"b","e","s","t">>, <<"h","i","g","h","e","s","t">>, <<"l","o","w","e","s","t">>, <<"r","a","n","k">>, <<"w","o","r","s","t">> >>
AnalyticsKeywords == << <<"a","v","e","r","a","g","e">>, <<"m","e","a","n">>, <<"m","e","d","i","a","n">>, <<"a","n","a","l","y","z","e">>, <<"t","r","e","n","d">>, <<"p","a","t","t","e","r","n">> >>
IdentificationKeywords == << <<"w","h","o">>, <<"s","t","u","d","e","n","t">>, <<"n","a","m","e">>, <<"p","e","r","s","o","n">> >>
TemporalKeywords == << <<"w","h","e","n">>, <<"d","a","t","e">>, <<"t","i","m","e">>, <<"s","c","h","e","d","u","l","e">> >>

QueryTypes == {"comparison", "ranking", "analytics", "identification", "temporal", "general"}

\* any(word in query for word in words)
any_word_in(words, query) == \E k \in 1..Len(words) : str_in(words[k], query)

\* A classifier that tests ranking before comparison (mutant of the priority order).
classify_ranking_first(query) ==
    LET q == lower(query) IN
    IF any_word_in(RankingKeywords, q) THEN "ranking"
    ELSE IF any_word_in(ComparisonKeywords, q) THEN "comparison"
    ELSE IF any_word_in(AnalyticsKeywords, q) THEN "analytics"
    ELSE IF any_word_in(IdentificationKeywords, q) THEN "identification"
    ELSE IF any_word_in(TemporalKeywords, q) THEN "temporal"
    ELSE "general"

classify_query_type(query) ==
    LET q == lower(query) IN
    IF any_word_in(ComparisonKeywords, q) THEN "comparison"
    ELSE IF any_word_in(RankingKeywords, q) THEN "ranking"
    ELSE IF any_word_in(AnalyticsKeywords, q) THEN "analytics"
    ELSE IF any_word_in(IdentificationKeywords, q) THEN "identification"
    ELSE IF any_word_in(TemporalKeywords, q) THEN "temporal"
    ELSE "general"

(***************************************************************************)
(* Relevance optimizer: RAGPromptOptimizer.optimize_for_relevance.         *)
(* A relevance score matching_terms / len(query_terms) is kept as the      *)
(* fraction [num, den]; fractions are compared by cross-multiplication.    *)
(***************************************************************************)
ContextBudget == 3

Fraction(n, d) == [num |-> n, den |-> d]
FracGT(a, b) == a.num * b.den > b.num * a.den
FracEQ(a, b) == a.num * b.den = b.num * a.den

\* query_terms = set(query.lower().split())
query_terms_of(query) == split_set(lower(query))

\* Mutant: the terms are looked up in the chunk text as written.
matching_terms_cased(query_terms, doc) ==
    Cardinality({ term \in query_terms : str_in(term, doc.page_content) })

\* content = doc["page_content"].lower()
\* matching_terms = sum(1 for term in query_terms if term in content)
matching_terms(query_terms, doc) ==
    LET content == lower(doc.page_content) IN
    Cardinality({ term \in query_terms : str_in(term, content) })

\* Mutant: a document is kept whatever its number of matching terms.
keeps_doc_always(matching) == matching >= 0

\* if matching_terms > 0
keeps_doc(matching) == matching > 0

\* doc.get("relevance_score", 0)
relevance_of(doc) ==
    IF "relevance_score" \in DOMAIN doc THEN doc.relevance_score ELSE Fraction(0, 1)

\* The division matching_terms / len(query_terms) is evaluated for a kept
\* document; it raises ZeroDivisionError when the query has no term.
division_raises(query_terms, retrieved_docs) ==
    \E i \in 1..Len(retrieved_docs) :
        /\ keeps_doc(matching_terms(query_terms, retrieved_docs[i]))
        /\ Cardinality(query_terms) = 0

RECURSIVE filter_docs_lowered(_, _)
\* Mutant: the lower-cased text used for the matching is kept as the content
\* of the returned document.
filter_docs_lowered(query_terms, retrieved_docs) ==
    IF retrieved_docs = <<>> THEN <<>>
    ELSE LET doc == Head(retrieved_docs)
             m == matching_terms(query_terms, doc)
             rest == filter_docs_lowered(query_terms, Tail(retrieved_docs))
         IN IF keeps_doc(m)
            THEN << [page_content |-> lower(doc.page_content), metadata |-> doc.metadata,
                     relevance_score |-> Fraction(m, Cardinality(query_terms))] >> \o rest
            ELSE rest

RECURSIVE filter_docs(_, _)
\* The loop over retrieved_docs: score and keep the documents with a match.
filter_docs(query_terms, retrieved_docs) ==
    IF retrieved_docs = <<>> THEN <<>>
    ELSE LET doc == Head(retrieved_docs)
             m == matching_terms(query_terms, doc)
             rest == filter_docs(query_terms, Tail(retrieved_docs))
         IN IF keeps_doc(m)
            THEN << ("relevance_score" :> Fraction(m, Cardinality(query_terms))) @@ doc >> \o rest
            ELSE rest

RECURSIVE insert_desc(_, _)
\* Insert doc into a list sorted by score descending, after its equals.
insert_desc(sorted, doc) ==
    IF sorted = <<>> THEN << doc >>
    ELSE IF FracGT(relevance_of(doc), relevance_of(Head(sorted)))
         THEN << doc >> \o sorted
         ELSE << Head(sorted) >> \o insert_desc(Tail(sorted), doc)

RECURSIVE insert_desc_unstable(_, _)
\* Mutant: doc goes before the documents of equal score (ties reversed).
insert_desc_unstable(sorted, doc) ==
    IF sorted = <<>> THEN << doc >>
    ELSE IF ~FracGT(relevance_of(Head(sorted)), relevance_of(doc))
         THEN << doc >> \o sorted
         ELSE << Head(sorted) >> \o insert_desc_unstable(Tail(sorted), doc)

\* Mutant of the sort: an unstable descending sort.
RECURSIVE sort_by_relevance_unstable(_)
sort_by_relevance_unstable(docs) ==
    IF docs = <<>> THEN <<>>
    ELSE insert_desc_unstable(sort_by_relevance_unstable(SubSeq(docs, 1, Len(docs) - 1)),
                              docs[Len(docs)])

RECURSIVE sort_by_relevance(_)
\* filtered_docs.sort(key=..., reverse=True): Python's sort is stable, also
\* with reverse=True.
sort_by_relevance(docs) ==
    IF docs = <<>> THEN <<>>
    ELSE insert_desc(sort_by_relevance(SubSeq(docs, 1, Len(docs) - 1)), docs[Len(docs)])

\* The result is [raised |-> FALSE, docs |-> ...] or a raised ZeroDivisionError.
optimize_for_relevance(query, retrieved_docs) ==
    LET query_terms == query_terms_of(query) IN
    IF division_raises(query_terms, retrieved_docs)
    THEN [raised |-> TRUE, error |-> "ZeroDivisionError", docs |-> <<>>]
    ELSE LET filtered_docs == sort_by_relevance(filter_docs(query_terms, retrieved_docs)) IN
         [raised |-> FALSE, error |-> "",
          docs |-> SubSeq(filtered_docs, 1, Min(ContextBudget, Len(filtered_docs)))]

(***************************************************************************)
(* Context prioritizer: RAGPromptOptimizer.prioritize_context.             *)
(***************************************************************************)
Sentinel == <<"N","o"," ","r","e","l","e","v","a","n","t"," ","i","n","f","o","r","m","a","t","i","o","n"," ","f","o","u","n","d"," ","i","n"," ","t","h","e"," ","d","a","t","a","b","a","s","e",".">>
HighRelevanceMarker == <<"[","H","I","G","H"," ","R","E","L","E","V","A","N","C","E","]"," ">>
ChunkSeparator == <<"\n","\n">>

\* any(c.isdigit() for c in content)
has_digit(content) == \E i \in 1..Len(content) : content[i] \in Digits

\* Mutant: the ranking branch marks by relevance score, as the other branch.
format_ranking_chunk_by_score(doc) ==
    IF FracGT(relevance_of(doc), Fraction(7, 10))
    THEN HighRelevanceMarker \o doc.page_content
    ELSE doc.page_content

\* The ranking branch of the loop.
format_ranking_chunk(doc) ==
    IF has_digit(doc.page_content)
    THEN HighRelevanceMarker \o doc.page_content
    ELSE doc.page_content

\* Mutant: a score of exactly 0.7 is marked too.
format_scored_chunk_inclusive(doc) ==
    IF ~FracGT(Fraction(7, 10), relevance_of(doc))
    THEN HighRelevanceMarker \o doc.page_content
    ELSE doc.page_content

\* The branch for every other query type: relevance > 0.7.
format_scored_chunk(doc) ==
    IF FracGT(relevance_of(doc), Fraction(7, 10))
    THEN HighRelevanceMarker \o doc.page_content
    ELSE doc.page_content

\* Mutant: no special case for an empty list ("\n\n".join([]) is "").
empty_context_joined(retrieved_docs) == <<>>

\* if not retrieved_docs: return "No relevant information found in the database."
empty_context(retrieved_docs) == Sentinel

prioritize_context(retrieved_docs, query_type) ==
    IF retrieved_docs = <<>> THEN empty_context(retrieved_docs)
    ELSE str_join(ChunkSeparator,
             [i \in 1..Len(retrieved_docs) |->
                 IF query_type = "ranking"
                 THEN format_ranking_chunk(retrieved_docs[i])
                 ELSE format_scored_chunk(retrieved_docs[i])])

(***************************************************************************)
(* Record supplier (DataService, outside the core) and document builder:   *)
(* AIService._process_data_to_documents.                                   *)
(***************************************************************************)
RetrievalK == 8

DigitChars == <<"0","1","2","3","4","5","6","7","8","9">>

RECURSIVE str_of_nat(_)
\* str(n) for a natural number n.
str_of_nat(n) ==
    IF n < 10 THEN << DigitChars[n + 1] >>
    ELSE str_of_nat(n \div 10) \o << DigitChars[(n % 10) + 1] >>

RECURSIVE pow10(_)
pow10(k) == IF k = 0 THEN 1 ELSE 10 * pow10(k - 1)

RECURSIVE zero_pad(_, _)
zero_pad(s, width) == IF Len(s) >= width THEN s ELSE zero_pad(<<"0">> \o s, width)

\* f"{x:.<places>f}" for a non-negative fraction x.
format_fixed(x, places) ==
    LET scaled == (2 * x.num * pow10(places) + x.den) \div (2 * x.den)
    IN str_of_nat(scaled \div pow10(places)) \o <<".">>
       \o zero_pad(str_of_nat(scaled % pow10(places)), places)

RECURSIVE sum_scores(_)
sum_scores(grades) ==
    IF grades = <<>> THEN 0 ELSE Head(grades).score + sum_scores(Tail(grades))

\* max(grades, key=score) and min(grades, key=score): the first extreme entry.
best_grade(grades) ==
    grades[CHOOSE i \in 1..Len(grades) :
              /\ \A j \in 1..Len(grades) : grades[j].score <= grades[i].score
              /\ \A j \in 1..(i - 1) : grades[j].score < grades[i].score]
worst_grade(grades) ==
    grades[CHOOSE i \in 1..Len(grades) :
              /\ \A j \in 1..Len(grades) : grades[j].score >= grades[i].score
              /\ \A j \in 1..(i - 1) : grades[j].score > grades[i].score]

RECURSIVE grade_lines(_)
\* text += f"- {grade['subject']}: {grade['score']} ({grade['semester']})\n"
grade_lines(grades) ==
    IF grades = <<>> THEN <<>>
    ELSE <<"-"," ">> \o Head(grades).subject \o <<":"," ">> \o str_of_nat(Head(grades).score)
         \o <<" ","(">> \o Head(grades).semester \o <<")","\n">> \o grade_lines(Tail(grades))

\* item.get(key) is truthy
has_text(item, key) == key \in DOMAIN item /\ item[key] # <<>>

\* The subscripts item['...'] of the student loop raise KeyError on a record
\* that lacks one of these keys.
student_malformed(item) ==
    \/ ~({"name", "email", "id", "enrollment_date"} \subseteq DOMAIN item)
    \/ /\ "grades" \in DOMAIN item
       /\ \E g \in 1..Len(item.grades) :
              ~({"subject", "score", "semester"} \subseteq DOMAIN item.grades[g])

\* The rich text representation of one student.
student_text(item) ==
    <<"S","t","u","d","e","n","t",":"," ">> \o item.name \o <<" ","(","E","m","a","i","l",":"," ">> \o item.email \o <<")","\n">>
    \o <<"I","D",":"," ">> \o item.id \o <<"\n">>
    \o <<"E","n","r","o","l","l","m","e","n","t"," ","D","a","t","e",":"," ">> \o item.enrollment_date \o <<"\n">>
    \o (IF "grades" \in DOMAIN item /\ item.grades # <<>>
        THEN <<"G","r","a","d","e","s",":","\n">> \o grade_lines(item.grades)
             \o <<"A","v","e","r","a","g","e"," ","S","c","o","r","e",":"," ">>
             \o format_fixed(Fraction(sum_scores(item.grades), Len(item.grades)), 2) \o <<"\n">>
             \o <<"B","e","s","t"," ","S","u","b","j","e","c","t",":"," ">> \o best_grade(item.grades).subject \o <<" ","(">>
             \o str_of_nat(best_grade(item.grades).score) \o <<")","\n">>
             \o <<"N","e","e","d","s"," ","I","m","p","r","o","v","e","m","e","n","t",":"," ">> \o worst_grade(item.grades).subject \o <<" ","(">>
             \o str_of_nat(worst_grade(item.grades).score) \o <<")","\n">>
        ELSE <<>>)
    \o (IF has_text(item, "ai_rag_project")
        THEN <<"A","I"," ","R","A","G"," ","P","r","o","j","e","c","t",":"," ">> \o item.ai_rag_project \o <<"\n">> ELSE <<>>)
    \o (IF has_text(item, "project_contributions")
        THEN <<"P","r","o","j","e","c","t"," ","C","o","n","t","r","i","b","u","t","i","o","n","s",":"," ">> \o item.project_contributions \o <<"\n">> ELSE <<>>)
    \o (IF has_text(item, "learning_results")
        THEN <<"L","e","a","r","n","i","n","g"," ","R","e","s","u","l","t","s",":"," ">> \o item.learning_results \o <<"\n">> ELSE <<>>)

\* The subscripts course['...'] of the course loop raise KeyError without these.
course_malformed(course) ==
    \/ ~({"name", "id", "department", "description"} \subseteq DOMAIN course)
    \/ /\ "statistics" \in DOMAIN course
       /\ ~({"avg_score", "student_count", "pass_rate"} \subseteq DOMAIN course.statistics)

\* The text representation of one course.
course_text(course) ==
    <<"C","o","u","r","s","e",":"," ">> \o course.name \o <<" ","(","I","D",":"," ">> \o course.id \o <<")","\n">>
    \o <<"D","e","p","a","r","t","m","e","n","t",":"," ">> \o course.department \o <<"\n">>
    \o <<"D","e","s","c","r","i","p","t","i","o","n",":"," ">> \o course.description \o <<"\n">>
    \o (IF "statistics" \in DOMAIN course
        THEN <<"C","o","u","r","s","e"," ","S","t","a","t","i","s","t","i","c","s",":","\n">>
             \o <<"-"," ","A","v","e","r","a","g","e"," ","S","c","o","r","e",":"," ">> \o format_fixed(course.statistics.avg_score, 2) \o <<"\n">>
             \o <<"-"," ","N","u","m","b","e","r"," ","o","f"," ","S","t","u","d","e","n","t","s",":"," ">> \o str_of_nat(course.statistics.student_count) \o <<"\n">>
             \o <<"-"," ","P","a","s","s"," ","R","a","t","e",":"," ">>
             \o format_fixed(Fraction(100 * course.statistics.pass_rate.num,
                                      course.statistics.pass_rate.den), 1) \o <<"%","\n">>
        ELSE <<>>)

RECURSIVE flatten(_)
flatten(seqs) == IF seqs = <<>> THEN <<>> ELSE Head(seqs) \o flatten(Tail(seqs))

RECURSIVE strip(_)
\* str.strip()
strip(s) ==
    IF s = <<>> THEN s
    ELSE IF Head(s) \in Whitespace THEN strip(Tail(s))
    ELSE IF s[Len(s)] \in Whitespace THEN strip(SubSeq(s, 1, Len(s) - 1))
    ELSE s

(***************************************************************************)
(* text_splitter.split_text: langchain's RecursiveCharacterTextSplitter    *)
(* with chunk_size=500, chunk_overlap=50 and its defaults (separators      *)
(* "\n\n", "\n", " ", "", the separator kept at the start of the piece     *)
(* that follows it, whitespace stripped from each chunk).                  *)
(***************************************************************************)
ChunkSize == 500
ChunkOverlap == 50
Separators == << << "\n", "\n" >>, << "\n" >>, << " " >>, <<>> >>

occurs_at(sep, text, i) ==
    /\ i + Len(sep) - 1 <= Len(text)
    /\ \A j \in 1..Len(sep) : text[i + j - 1] = sep[j]

RECURSIVE separator_starts(_, _, _)
\* The places of the occurrences of sep in text from place from on, left to
\* right, without overlap.
separator_starts(sep, text, from) ==
    LET hits == { i \in from..(Len(text) - Len(sep) + 1) : occurs_at(sep, text, i) } IN
    IF hits = {} THEN <<>>
    ELSE LET first == CHOOSE i \in hits : \A j \in hits : i <= j
         IN << first >> \o separator_starts(sep, text, first + Len(sep))

\* _split_text_with_regex(text, separator, keep_separator=True): the pieces
\* between the separators, each separator in front of the piece after it;
\* the characters of the text for the empty separator; no empty piece.
split_with_separator(text, sep) ==
    IF sep = <<>> THEN [i \in 1..Len(text) |-> << text[i] >>]
    ELSE LET starts == separator_starts(sep, text, 1)
             cuts == << 1 >> \o starts \o << Len(text) + 1 >>
             pieces == [k \in 1..(Len(cuts) - 1) |-> SubSeq(text, cuts[k], cuts[k + 1] - 1)]
         IN SelectSeq(pieces, LAMBDA p : p # <<>>)

\* _join_docs with the empty separator: the stripped concatenation, none
\* when it is empty.
join_docs(current_doc) ==
    LET text == strip(flatten(current_doc)) IN
    IF text = <<>> THEN <<>> ELSE << text >>

RECURSIVE total_length(_)
total_length(pieces) ==
    IF pieces = <<>> THEN 0 ELSE Len(Head(pieces)) + total_length(Tail(pieces))

RECURSIVE drop_for_overlap(_, _)
\* The while loop of _merge_splits: pieces leave the front of current_doc
\* while it is longer than the overlap, or too long to take the next piece.
drop_for_overlap(current_doc, next_len) ==
    LET total == total_length(current_doc) IN
    IF total > ChunkOverlap \/ (total + next_len > ChunkSize /\ total > 0)
    THEN drop_for_overlap(Tail(current_doc), next_len)
    ELSE current_doc

RECURSIVE merge_splits(_, _)
\* _merge_splits(splits, ""), current_doc being the pieces collected so far.
merge_splits(splits, current_doc) ==
    IF splits = <<>> THEN join_docs(current_doc)
    ELSE LET d == Head(splits) IN
         IF total_length(current_doc) + Len(d) > ChunkSize /\ current_doc # <<>>
         THEN join_docs(current_doc)
              \o merge_splits(Tail(splits),
                     Append(drop_for_overlap(current_doc, Len(d)), d))
         ELSE merge_splits(Tail(splits), Append(current_doc, d))

\* The separator _split_text picks: the first of the list that is empty or
\* occurs in the text.
pick_separator(text, separators) ==
    CHOOSE k \in 1..Len(separators) :
        /\ separators[k] = <<>> \/ separator_starts(separators[k], text, 1) # <<>>
        /\ \A j \in 1..(k - 1) :
              separators[j] # <<>> /\ separator_starts(separators[j], text, 1) = <<>>

RECURSIVE split_text_with(_, _)
RECURSIVE split_pieces(_, _, _)
\* The loop of _split_text over the pieces: short pieces are collected and
\* merged, a piece of chunk_size or more is split with the next separators.
split_pieces(splits, good_splits, new_separators) ==
    IF splits = <<>> THEN merge_splits(good_splits, <<>>)
    ELSE LET s == Head(splits) IN
         IF Len(s) < ChunkSize
         THEN split_pieces(Tail(splits), Append(good_splits, s), new_separators)
         ELSE merge_splits(good_splits, <<>>)
              \o (IF new_separators = <<>> THEN << s >>
                  ELSE split_text_with(s, new_separators))
              \o split_pieces(Tail(splits), <<>>, new_separators)

\* _split_text(text, separators)
split_text_with(text, separators) ==
    LET k == pick_separator(text, separators)
        new_separators == IF separators[k] = <<>> THEN <<>>
                          ELSE SubSeq(separators, k + 1, Len(separators))
    IN split_pieces(split_with_separator(text, separators[k]), <<>>, new_separators)

\* text_splitter.split_text(text)
split_text(text) == split_text_with(text, Separators)

\* Mutant: the chunks of a student are numbered from 1.
student_documents_one_based(item) ==
    LET chunks == split_text(student_text(item)) IN
    [i \in 1..Len(chunks) |->
        [page_content |-> chunks[i],
         metadata |-> [student_id |-> item.id, type |-> "student_record",
                       name |-> item.name, chunk_number |-> i,
                       total_chunks |-> Len(chunks)]]]

\* The documents of one student: one per chunk, with the record's metadata.
student_documents(item) ==
    LET chunks == split_text(student_text(item)) IN
    [i \in 1..Len(chunks) |->
        [page_content |-> chunks[i],
         metadata |-> [student_id |-> item.id, type |-> "student_record",
                       name |-> item.name, chunk_number |-> i - 1,
                       total_chunks |-> Len(chunks)]]]

\* The documents of one course.
course_documents(course) ==
    LET chunks == split_text(course_text(course)) IN
    [i \in 1..Len(chunks) |->
        [page_content |-> chunks[i],
         metadata |-> [course_id |-> course.id, type |-> "course_record",
                       name |-> course.name, chunk_number |-> i - 1,
                       total_chunks |-> Len(chunks)]]]

\* _process_data_to_documents: the documents of all students, then of all
\* courses; a KeyError of any record ends the whole call.
process_data_to_documents(students_data, courses_data) ==
    IF \/ \E i \in 1..Len(students_data) : student_malformed(students_data[i])
       \/ \E i \in 1..Len(courses_data) : course_malformed(courses_data[i])
    THEN [raised |-> TRUE, error |-> "KeyError", docs |-> <<>>]
    ELSE [raised |-> FALSE, error |-> "",
          docs |-> flatten([i \in 1..Len(students_data) |-> student_documents(students_data[i])])
                   \o flatten([i \in 1..Len(courses_data) |-> course_documents(courses_data[i])])]

(***************************************************************************)
(* The records the supplier can return (the database contents considered). *)
(***************************************************************************)
StudentAnn ==
    [id |-> <<"s","1">>, name |-> <<"A","n","n">>, email |-> <<"a","n","n","@","x",".","i","o">>, enrollment_date |-> <<"2","0","2","4","-","0","1","-","0","5">>,
     grades |-> << [subject |-> <<"M","a","t","h">>, score |-> 90, semester |-> <<"S","1">>],
                   [subject |-> <<"A","r","t">>, score |-> 71, semester |-> <<"S","1">>] >>]
StudentBob ==
    [id |-> <<"s","2">>, name |-> <<"B","o","b">>, email |-> <<"b","o","b","@","x",".","i","o">>, enrollment_date |-> <<"2","0","2","4","-","0","2","-","0","1">>,
     grades |-> <<>>]
StudentMax ==
    [id |-> <<"s","3">>, name |-> <<"M","a","x">>, email |-> <<"m","a","x","@","x",".","i","o">>, enrollment_date |-> <<"2","0","2","3","-","0","9","-","0","1">>,
     grades |-> << [subject |-> <<"M","a","t","h">>, score |-> 55, semester |-> <<"S","2">>] >>,
     learning_results |-> <<"t","o","p"," ","o","f"," ","m","a","t","h"," ","c","l","a","s","s">>]
\* A student whose text is longer than chunk_size.
StudentLea ==
    [id |-> <<"s","5">>, name |-> <<"L","e","a">>, email |-> <<"l","e","a","@","x",".","i","o">>, enrollment_date |-> <<"2","0","2","4","-","0","3","-","0","1">>,
     grades |-> <<>>,
     ai_rag_project |-> <<"A"," ","r","e","t","r","i","e","v","a","l"," ","a","s","s","i","s","t","a","n","t"," ","f","o","r"," ","t","h","e"," ","s","c","h","o","o","l"," ","l","i","b","r","a","r","y"," ","t","h","a","t"," ","a","n","s","w","e","r","s"," ","q","u","e","s","t","i","o","n","s"," ","a","b","o","u","t"," ","c","o","u","r","s","e"," ","m","a","t","e","r","i","a","l","."," ","L","e","a"," ","d","e","s","i","g","n","e","d"," ","t","h","e"," ","c","h","u","n","k","i","n","g"," ","o","f"," ","t","h","e"," ","l","e","c","t","u","r","e"," ","n","o","t","e","s"," ","a","n","d"," ","t","h","e"," ","n","i","g","h","t","l","y"," ","r","e","b","u","i","l","d"," ","o","f"," ","t","h","e"," ","i","n","d","e","x"," ","a","n","d"," ","w","r","o","t","e"," ","t","h","e"," ","e","v","a","l","u","a","t","i","o","n"," ","s","e","t"," ","o","f"," ","t","w","o"," ","h","u","n","d","r","e","d"," ","q","u","e","s","t","i","o","n","s"," ","w","i","t","h"," ","t","h","e"," ","t","e","a","c","h","e","r","s"," ","o","f"," ","t","h","e"," ","s","c","i","e","n","c","e"," ","d","e","p","a","r","t","m","e","n","t","."," ","T","h","e"," ","a","s","s","i","s","t","a","n","t"," ","i","s"," ","u","s","e","d"," ","b","y"," ","t","h","r","e","e"," ","c","l","a","s","s","e","s"," ","a","n","d"," ","i","t","s"," ","a","n","s","w","e","r","s"," ","a","r","e"," ","r","e","v","i","e","w","e","d"," ","e","v","e","r","y"," ","w","e","e","k"," ","b","y"," ","t","h","e"," ","c","o","u","r","s","e"," ","s","t","a","f","f",".">>,
     project_contributions |-> <<"m","a","t","h"," ","t","u","t","o","r","i","n","g">>,
     learning_results |-> <<"S","t","r","o","n","g"," ","p","r","o","g","r","e","s","s"," ","i","n"," ","m","a","t","h"," ","a","n","d"," ","s","t","a","t","i","s","t","i","c","s"," ","o","v","e","r"," ","t","h","e"," ","y","e","a","r"," ","a","n","d"," ","a"," ","s","t","e","a","d","y"," ","r","e","c","o","r","d"," ","i","n"," ","t","h","e"," ","w","r","i","t","t","e","n"," ","e","x","a","m","s"," ","o","f"," ","e","v","e","r","y"," ","t","e","r","m"," ","s","o"," ","f","a","r",".">>]
StudentNoName ==
    [id |-> <<"s","4">>, email |-> <<"e","v","e","@","x",".","i","o">>, enrollment_date |-> <<"2","0","2","4","-","0","3","-","0","1">>, grades |-> <<>>]
CourseMath ==
    [id |-> <<"c","1">>, name |-> <<"M","a","t","h">>, department |-> <<"S","c","i","e","n","c","e">>, description |-> <<"A","l","g","e","b","r","a">>,
     statistics |-> [avg_score |-> Fraction(145, 2), student_count |-> 2,
                     pass_rate |-> Fraction(1, 2)]]

Datasets ==
    << [students |-> <<>>, courses |-> <<>>],
       [students |-> << StudentAnn, StudentBob >>, courses |-> <<>>],
       [students |-> << StudentAnn, StudentMax >>, courses |-> << CourseMath >>],
       [students |-> << StudentAnn, StudentNoName >>, courses |-> << CourseMath >>],
       [students |-> << StudentLea, StudentBob >>, courses |-> <<>>] >>

\* The complete document lists a build can produce from these data.
CompleteBuilds ==
    { process_data_to_documents(Datasets[d].students, Datasets[d].courses).docs :
        d \in { e \in 1..Len(Datasets) :
                  ~process_data_to_documents(Datasets[e].students, Datasets[e].courses).raised } }

(***************************************************************************)
(* Prompt composer: PromptTemplates.get_system_message,                    *)
(* generate_few_shot_examples and format_rag_prompt.  The fixed text       *)
(* blocks are named, a composed message is the sequence of its blocks.     *)
(***************************************************************************)
\* Mutant: a role that is none of the three gets the student block.
get_system_message_student_default(user_role) ==
    IF user_role = "teacher" THEN << "base_message", "teacher_block" >>
    ELSE IF user_role = "admin" THEN << "base_message", "admin_block" >>
    ELSE << "base_message", "student_block" >>

\* get_system_message(user_role): the base persona, then the role block.
get_system_message(user_role) ==
    IF user_role = "teacher" THEN << "base_message", "teacher_block" >>
    ELSE IF user_role = "student" THEN << "base_message", "student_block" >>
    ELSE IF user_role = "admin" THEN << "base_message", "admin_block" >>
    ELSE << "base_message" >>

\* Mutant: a query type without an example of its own gets the analytics one.
generate_few_shot_examples_fallback(query_type) ==
    IF query_type = "comparison" THEN << "comparison_example" >>
    ELSE IF query_type = "ranking" THEN << "ranking_example" >>
    ELSE << "analytics_example" >>

\* generate_few_shot_examples(query_type): examples.get(query_type, "")
generate_few_shot_examples(query_type) ==
    IF query_type = "comparison" THEN << "comparison_example" >>
    ELSE IF query_type = "ranking" THEN << "ranking_example" >>
    ELSE IF query_type = "analytics" THEN << "analytics_example" >>
    ELSE <<>>

TicksPerSecond == 2

\* last_update_time.strftime("%Y-%m-%d %H:%M:%S"): the time cut to whole seconds.
strftime_seconds(t) == t \div TicksPerSecond

\* last_update_time.isoformat(): the time with its sub-second part.
isoformat(t) == t

\* Mutant: the prompt composer classifies the query as written, without
\* lower-casing it.
format_rag_prompt_cased(query, context, metadata) ==
    LET query_type ==
            IF any_word_in(ComparisonKeywords, query) THEN "comparison"
            ELSE IF any_word_in(RankingKeywords, query) THEN "ranking"
            ELSE IF any_word_in(AnalyticsKeywords, query) THEN "analytics"
            ELSE "general"
    IN [question |-> query,
        context |-> context,
        style |-> IF query_type \in {"comparison", "ranking", "analytics"}
                  THEN query_type ELSE "none",
        freshness |-> metadata.recent_updates]

\* format_rag_prompt(query, context, metadata): question, context, the
\* instruction block of the query type classified here, the freshness note.
format_rag_prompt(query, context, metadata) ==
    LET query_type == classify_query_type(query) IN
    [question |-> query,
     context |-> context,
     style |-> IF query_type \in {"comparison", "ranking", "analytics"}
               THEN query_type ELSE "none",
     freshness |-> metadata.recent_updates]

(***************************************************************************)
(* Completion client: AIService.query_groq, as the outcome of the call for *)
(* each answer of the endpoint.                                            *)
(***************************************************************************)
RequestTimeout == 30
StatusOK == 200
StatusError == 500

\* An exception leaving query_groq: its class, its message, and what the
\* message is formatted from (the status code, the error detail and whether
\* the detail is the parsed body or the raw text).
Raised(type, message, status, detail_form, detail) ==
    [raised |-> TRUE, type |-> type, message |-> message, status |-> status,
     detail_form |-> detail_form, detail |-> detail, text |-> ""]
\* A value returned by query_groq.
Returned(text) ==
    [raised |-> FALSE, type |-> "", message |-> "", status |-> 0,
     detail_form |-> "", detail |-> "", text |-> text]

\* Bodies the endpoint can answer with: the raw text, whether it parses as
\* JSON, and the parsed value.
BodyCompletion ==
    [text |-> "completion_json", is_json |-> TRUE,
     json |-> [choices |-> << [message |-> [content |-> "Ann has the top score."]],
                              [message |-> [content |-> "Max has the top score."]] >>]]
BodyNoChoices ==
    [text |-> "error_json", is_json |-> TRUE,
     json |-> [error |-> [message |-> "rate limit"]]]
BodyEmptyChoices ==
    [text |-> "empty_choices_json", is_json |-> TRUE, json |-> [choices |-> <<>>]]
BodyNoContent ==
    [text |-> "no_content_json", is_json |-> TRUE,
     json |-> [choices |-> << [message |-> [role |-> "assistant"]] >>]]
BodyNotJson ==
    [text |-> "Bad Gateway", is_json |-> FALSE, json |-> [none |-> TRUE]]

\* What the endpoint can do with one request: not answer within the timeout
\* of the client, or answer with a status, a content-type header and a body.
Answers ==
    { [kind |-> "timeout", waited |-> RequestTimeout, status |-> 0, content_type |-> "",
       body |-> BodyNotJson] }
    \cup { [kind |-> "response", waited |-> 1, status |-> StatusOK,
            content_type |-> "application/json", body |-> b] :
           b \in {BodyCompletion, BodyNoChoices, BodyEmptyChoices, BodyNoContent, BodyNotJson} }
    \cup { [kind |-> "response", waited |-> 1, status |-> StatusError,
            content_type |-> ct, body |-> b] :
           ct \in {"application/json", "application/json; charset=utf-8", "text/html"},
           b \in {BodyNoChoices, BodyNotJson} }
NoAnswer == [kind |-> "none", waited |-> 0, status |-> 0, content_type |-> "", body |-> BodyNotJson]

\* response.json() raises JSONDecodeError on a body that is not JSON.
json_raises(answer) == ~answer.body.is_json
JSONDecodeError == Raised("JSONDecodeError", "Expecting value", 0, "", "")

\* Mutant: a timeout is reported as a failure of the endpoint.
timeout_outcome_as_upstream(answer) ==
    Raised("Exception", "Error from Groq API", answer.status, "", "")

\* except httpx.TimeoutException: raise Exception("Request to Groq API timed out. ...")
timeout_outcome(answer) ==
    Raised("Exception", "Request to Groq API timed out", 0, "", "")

\* if response.status_code != 200: error_detail is response.json() when the
\* content-type header is exactly application/json, else response.text;
\* raise Exception(f"Error from Groq API ({status_code}): {error_detail}"),
\* which the handler below prints and re-raises, as it does the
\* JSONDecodeError of response.json().
status_outcome(answer) ==
    IF answer.content_type = "application/json"
    THEN IF json_raises(answer)
         THEN JSONDecodeError
         ELSE Raised("Exception", "Error from Groq API", answer.status, "json", answer.body.text)
    ELSE Raised("Exception", "Error from Groq API", answer.status, "text", answer.body.text)

\* Mutant: a body without the expected shape yields an empty completion.
extract_content_lenient(result) ==
    IF /\ "choices" \in DOMAIN result
       /\ Len(result.choices) > 0
       /\ "message" \in DOMAIN result.choices[1]
       /\ "content" \in DOMAIN result.choices[1].message
    THEN Returned(result.choices[1].message.content)
    ELSE Returned("")

\* return result["choices"][0]["message"]["content"]
extract_content(result) ==
    IF "choices" \notin DOMAIN result THEN Raised("KeyError", "'choices'", 0, "", "")
    ELSE IF Len(result.choices) = 0
         THEN Raised("IndexError", "list index out of range", 0, "", "")
    ELSE IF "message" \notin DOMAIN result.choices[1]
         THEN Raised("KeyError", "'message'", 0, "", "")
    ELSE IF "content" \notin DOMAIN result.choices[1].message
         THEN Raised("KeyError", "'content'", 0, "", "")
    ELSE Returned(result.choices[1].message.content)

\* The try block of query_groq once the endpoint has answered or timed out.
query_groq_outcome(answer) ==
    IF answer.kind = "timeout" THEN timeout_outcome(answer)
    ELSE IF answer.status # StatusOK THEN status_outcome(answer)
    ELSE IF json_raises(answer) THEN JSONDecodeError
    ELSE extract_content(answer.body.json)

(***************************************************************************)
(* Response assembler: step 8 of AIService.chat.                           *)
(***************************************************************************)
SnippetLength == 100

\* doc["page_content"][:100] + "..." if len(doc["page_content"]) > 100 else doc["page_content"]
snippet(content) ==
    IF Len(content) > SnippetLength THEN SubSeq(content, 1, SnippetLength) \o <<".",".",".">>
    ELSE content

is_student_doc(doc) ==
    /\ "metadata" \in DOMAIN doc /\ "type" \in DOMAIN doc.metadata
    /\ doc.metadata.type = "student_record" /\ "student_id" \in DOMAIN doc.metadata
is_course_doc(doc) ==
    /\ "metadata" \in DOMAIN doc /\ "type" \in DOMAIN doc.metadata
    /\ doc.metadata.type = "course_record" /\ "course_id" \in DOMAIN doc.metadata

\* The source entry of one optimized document (none for other documents).
source_entries(doc) ==
    IF is_student_doc(doc)
    THEN << [id |-> doc.metadata.student_id, type |-> "student",
             name |-> doc.metadata.name, relevance |-> relevance_of(doc),
             snippet |-> snippet(doc.page_content)] >>
    ELSE IF is_course_doc(doc)
    THEN << [id |-> doc.metadata.course_id, type |-> "course",
             name |-> doc.metadata.name, relevance |-> relevance_of(doc),
             snippet |-> snippet(doc.page_content)] >>
    ELSE <<>>

\* Mutant: a record that already has a source entry gets no second one.
build_sources_dedup(optimized_docs) ==
    flatten([i \in 1..Len(optimized_docs) |->
        IF \E j \in 1..(i - 1) :
              /\ source_entries(optimized_docs[j]) # <<>>
              /\ source_entries(optimized_docs[i]) # <<>>
              /\ source_entries(optimized_docs[j])[1].type = source_entries(optimized_docs[i])[1].type
              /\ source_entries(optimized_docs[j])[1].id = source_entries(optimized_docs[i])[1].id
        THEN <<>>
        ELSE source_entries(optimized_docs[i])])

\* The loop over optimized_docs building sources.
build_sources(optimized_docs) ==
    flatten([i \in 1..Len(optimized_docs) |-> source_entries(optimized_docs[i])])

\* Mutant: the students are counted per chunk, not per id.
student_chunks_of(optimized_docs) ==
    { k \in 1..Len(optimized_docs) : is_student_doc(optimized_docs[k]) }

\* student_ids.add(metadata["student_id"]) and course_ids.add(metadata["course_id"])
student_ids_of(optimized_docs) ==
    { optimized_docs[i].metadata.student_id :
        i \in { k \in 1..Len(optimized_docs) : is_student_doc(optimized_docs[k]) } }
course_ids_of(optimized_docs) ==
    { optimized_docs[i].metadata.course_id :
        i \in { k \in 1..Len(optimized_docs) : is_course_doc(optimized_docs[k]) } }

\* Mutant: context_length is the length of the chunk texts, not of the
\* rendered context.
answer_envelope_chunk_length(response_text, optimized_docs, query_type, context, update_time) ==
    [answer |-> response_text,
     sources |-> build_sources(optimized_docs),
     metadata |-> [query_type |-> query_type,
                   student_count |-> Cardinality(student_ids_of(optimized_docs)),
                   course_count |-> Cardinality(course_ids_of(optimized_docs)),
                   context_length |->
                       Len(flatten([i \in 1..Len(optimized_docs) |->
                                       optimized_docs[i].page_content])),
                   processing_time |-> "0.5s",
                   last_db_update |-> isoformat(update_time)],
     confidence |-> Fraction(85, 100)]

\* The dictionary chat returns.
answer_envelope(response_text, optimized_docs, query_type, context, update_time) ==
    [answer |-> response_text,
     sources |-> build_sources(optimized_docs),
     metadata |-> [query_type |-> query_type,
                   student_count |-> Cardinality(student_ids_of(optimized_docs)),
                   course_count |-> Cardinality(course_ids_of(optimized_docs)),
                   context_length |-> Len(context),
                   processing_time |-> "0.5s",
                   last_db_update |-> isoformat(update_time)],
     confidence |-> Fraction(85, 100)]

(***************************************************************************)
(* State.                                                                  *)
(*   api_key_set       settings.GROQ_API_KEY is a non-empty string         *)
(*   vector_store      AIService.vector_store: the FAISS index object, as  *)
(*                     its identity and the documents it holds             *)
(*   last_update_time  AIService.last_update_time                          *)
(*   clock             the wall clock read by datetime.now()               *)
(*   running           the handler whose run occupies the event loop: a    *)
(*                     run ends at an await or at the handler's return,    *)
(*                     and refresh_knowledge calls the synchronous         *)
(*                     refresh_vector_store, so it has no await            *)
(*   refresh           the refresh_knowledge handlers, one per request in  *)
(*                     flight: position, the locals of                     *)
(*                     initialize_vector_store, the exception raised       *)
(*   chat              the query_chatbot handler: position, locals of      *)
(*                     AIService.chat and query_groq, the number of        *)
(*                     requests sent, the state of the request on the      *)
(*                     network, the status and body of the HTTP response   *)
(*   p_*               input and result of one application of a pure       *)
(*                     function (classifier, optimizer, prioritizer)       *)
(*   foreign_keys      the database behind DATABASE_URL enforces foreign   *)
(*                     keys (SQLite, the default, does not unless asked)   *)
(*   students_table, grades_table                                          *)
(*                     the rows of the tables students and grades          *)
(*   next_student_id, next_grade_id                                        *)
(*                     the next primary key: uuid4 never repeats a key     *)
(*   create_grade      the create_grade handler: position, request data,   *)
(*                     the locals student and grade, status and detail of  *)
(*                     its response                                        *)
(*   last_response     the response of the last request served by another  *)
(*                     handler of the students and grades routers          *)
(***************************************************************************)
VARIABLES api_key_set, vector_store, last_update_time, clock, running,
          refresh, chat, p_op, p_pc, p_query, p_docs, p_type, p_result,
          foreign_keys, students_table, grades_table, next_student_id, next_grade_id,
          create_grade, last_response

service_vars == << api_key_set, vector_store, last_update_time, clock, running,
                   refresh, chat >>
pure_vars == << p_op, p_pc, p_query, p_docs, p_type, p_result >>
store_vars == << foreign_keys, students_table, grades_table, next_student_id, next_grade_id,
                 create_grade, last_response >>
vars == << api_key_set, vector_store, last_update_time, clock, running,
           refresh, chat, p_op, p_pc, p_query, p_docs, p_type, p_result,
           foreign_keys, students_table, grades_table, next_student_id, next_grade_id,
           create_grade, last_response >>

MaxBuilds == 2
MaxQueryWords == 2
MaxCandidates == 4
MaxRenderDocs == 2
MaxStudents == 2
MaxGrades == 2

NoOutcome == Returned("")
NoStore == [id |-> 0 - 1, docs |-> <<>>]
NoEnvelope ==
    [answer |-> "", sources |-> <<>>,
     metadata |-> [query_type |-> "", student_count |-> 0, course_count |-> 0,
                   context_length |-> 0, processing_time |-> "", last_db_update |-> 0],
     confidence |-> Fraction(0, 1)]
NoPrompt == [question |-> <<>>, context |-> <<>>, style |-> "", freshness |-> 0]

IdleChat ==
    [pc |-> "idle", query |-> <<>>, user_role |-> "", query_type |-> "",
     retriever |-> NoStore, raw_docs |-> <<>>, optimized_docs |-> <<>>, context |-> <<>>,
     system_message |-> <<>>, prompt |-> NoPrompt, requests |-> 0, net |-> "none",
     response |-> NoAnswer, outcome |-> NoOutcome, status |-> 0, envelope |-> NoEnvelope]

\* The requests to /chatbot/refresh-knowledge that can be in flight together.
RefreshRequests == {"r1", "r2"}

IdleRefresh ==
    [pc |-> "idle", students_data |-> <<>>, courses_data |-> <<>>, documents |-> <<>>,
     error |-> "", status |-> 0]

NoPureResult ==
    [query_type |-> "", raised |-> FALSE, docs |-> <<>>, context |-> <<>>]

(***************************************************************************)
(* Vector index: FAISS.from_documents and the k-nearest-neighbour          *)
(* retriever.  Which documents are nearest to a query, and in which order, *)
(* is decided by the embedding model: every order of every choice of       *)
(* min(k, n) documents of the index is possible.                           *)
(***************************************************************************)
\* The index object built from documents; id is its identity.
new_store(id, documents) == [id |-> id, docs |-> documents]

\* Mutant: the index is published before its last document is added.
new_store_partial(id, documents) ==
    [id |-> id, docs |-> SubSeq(documents, 1, Len(documents) - 1)]

\* The object assigned to self.vector_store.
published_store(id, documents) == new_store(id, documents)

\* retriever.get_relevant_documents(query) with search_kwargs k = 8, converted
\* to the list docs_dict of {"page_content", "metadata"} dictionaries.
retrievals(store) ==
    LET n == Len(store.docs)
        m == Min(RetrievalK, n)
    IN { [i \in 1..m |-> store.docs[f[i]]] :
           f \in { g \in [1..m -> 1..n] : \A a, b \in 1..m : a # b => g[a] # g[b] } }

(***************************************************************************)
(* Inputs.                                                                 *)
(***************************************************************************)
\* Requests to POST /chatbot/query: the query text and context.user_role.
ChatRequests ==
    { [query |-> <<"C","o","m","p","a","r","e"," ","t","o","p"," ","M","a","t","h">>, user_role |-> "teacher"],
      [query |-> <<"W","h","o"," ","i","s"," ","A","n","n">>, user_role |-> "student"],
      [query |-> <<"S","h","o","w"," ","m","e"," ","t","h","e"," ","t","o","p"," ","5"," ","s","t","u","d","e","n","t","s"," ","i","n"," ","m","a","t","h"," ","t","h","i","s"," ","s","e","m","e","s","t","e","r">>, user_role |-> ""],
      [query |-> <<"w","e","a","t","h","e","r">>, user_role |-> "admin"],
      [query |-> <<>>, user_role |-> "guest"] }

\* Words the queries of the pure-function checks are made of.
ClassifierWords ==
    { <<"C","o","m","p","a","r","e">>, <<"t","o","p">>, <<"M","E","A","N">>, <<"w","h","o">>, <<"d","a","t","e">>, <<"A","n","n">>, <<"s","t","o","p">>, <<"m","a","t","h">> }
OptimizerWords == { <<"M","a","t","h">>, <<"i","o">>, <<"a","n","n">>, <<"z","z","z">>, <<>> }

\* The texts made of at most n of the given words, separated by one space.
texts_of(words, n) ==
    UNION { { str_join(<<" ">>, w) : w \in [1..k -> words] } : k \in 0..n }

\* The sequences of at most n distinct elements of a finite sequence pool.
selections(pool, n) ==
    UNION { { [i \in 1..k |-> pool[f[i]]] :
                f \in { g \in [1..k -> 1..Len(pool)] :
                          \A a, b \in 1..k : a # b => g[a] # g[b] } } :
            k \in 0..Min(n, Len(pool)) }

\* Candidate documents: the documents built from three students and a course.
CandidatePool ==
    process_data_to_documents(<< StudentAnn, StudentBob, StudentMax >>, << CourseMath >>).docs

\* Scored chunks handed to the prioritizer.
RenderChunks ==
    { [page_content |-> <<"A","n","n"," ","9","0">>, metadata |-> [type |-> "student_record"]],
      [page_content |-> <<"n","o"," ","g","r","a","d","e","s">>, metadata |-> [type |-> "student_record"]] }
RenderScores == { Fraction(1, 2), Fraction(7, 10), Fraction(3, 4), Fraction(1, 1) }
RenderPool ==
    RenderChunks \cup
    { ("relevance_score" :> s) @@ c : c \in RenderChunks, s \in RenderScores }
render_inputs(n) == UNION { [1..k -> RenderPool] : k \in 0..n }

(***************************************************************************)
(* Applications of the pure functions to drawn inputs.                     *)
(***************************************************************************)
PureIdle ==
    /\ p_op = "none" /\ p_pc = "done" /\ p_query = <<>> /\ p_docs = <<>>
    /\ p_type = "" /\ p_result = NoPureResult

PureInputs ==
    /\ p_pc = "input"
    /\ p_result = NoPureResult
    /\ \/ /\ p_op = "classify"
          /\ p_query \in texts_of(ClassifierWords, MaxQueryWords)
          /\ p_docs = <<>> /\ p_type = ""
       \/ /\ p_op = "optimize"
          /\ p_query \in texts_of(OptimizerWords, MaxQueryWords)
          /\ p_docs \in selections(CandidatePool, MaxCandidates)
          /\ p_type = ""
       \/ /\ p_op = "render"
          /\ p_query = <<>>
          /\ p_docs \in render_inputs(MaxRenderDocs)
          /\ p_type \in QueryTypes

\* classify(query)
Classify ==
    /\ p_op = "classify" /\ p_pc = "input"
    /\ p_result' = [p_result EXCEPT !.query_type = classify_query_type(p_query)]
    /\ p_pc' = "done"
    /\ UNCHANGED << p_op, p_query, p_docs, p_type >>

\* optimize(query, candidates)
Optimize ==
    /\ p_op = "optimize" /\ p_pc = "input"
    /\ LET r == optimize_for_relevance(p_query, p_docs) IN
       p_result' = [p_result EXCEPT !.raised = r.raised, !.docs = r.docs]
    /\ p_pc' = "done"
    /\ UNCHANGED << p_op, p_query, p_docs, p_type >>

\* render(scoredChunks, queryType)
Render ==
    /\ p_op = "render" /\ p_pc = "input"
    /\ p_result' = [p_result EXCEPT !.context = prioritize_context(p_docs, p_type)]
    /\ p_pc' = "done"
    /\ UNCHANGED << p_op, p_query, p_docs, p_type >>


(***************************************************************************)
(* The students and grades routers over the SQL store.  Their handlers are *)
(* plain functions ("def"): the framework runs each request on a worker    *)
(* thread with a session of its own, so requests interleave between two    *)
(* statements sent to the database.                                        *)
(***************************************************************************)
StatusCreated == 201
StatusBadRequest == 400
StatusNotFound == 404

StudentIds == 1..MaxStudents
GradeIds == 1..MaxGrades
Emails == {"ann@x.io", "bob@x.io"}
Scores == {5, 9}

\* None, where a row is expected.
NoRow == [id |-> 0]

\* session.get(Model, id): the row with this primary key, or None.
session_get(table, id) ==
    IF \E row \in table : row.id = id
    THEN CHOOSE row \in table : row.id = id
    ELSE NoRow

\* The status and detail of an HTTP response, with the handler it is from.
http_response(op, status, detail) == [op |-> op, status |-> status, detail |-> detail]
NoResponse == http_response("", 0, "")

\* str(e) of HTTPException(404, "Student not found"): the status and the
\* detail, or the empty string in versions of the framework whose
\* HTTPException declares no __str__.
str_of_not_found == {"404: Student not found", ""}

IdleCreateGrade ==
    [pc |-> "idle", student_id |-> 0, score |-> 0, student |-> NoRow, grade |-> NoRow,
     status |-> 0, detail |-> ""]

\* create_db_and_tables on an empty database.
StoreInit ==
    /\ foreign_keys \in BOOLEAN
    /\ students_table = {} /\ grades_table = {}
    /\ next_student_id = 1 /\ next_grade_id = 1
    /\ create_grade = IdleCreateGrade
    /\ last_response = NoResponse

\* The store while the other parts of the program are examined.
StoreDormant ==
    /\ foreign_keys = FALSE
    /\ students_table = {} /\ grades_table = {}
    /\ next_student_id = 1 /\ next_grade_id = 1
    /\ create_grade = IdleCreateGrade
    /\ last_response = NoResponse

\* create_student -> StudentRepository.create: 400 when the email is taken,
\* else the row is inserted under a new key and the answer is 201.
CreateStudent ==
    /\ next_student_id <= MaxStudents
    /\ \E email \in Emails :
         IF \E existing \in students_table : existing.email = email
         THEN /\ last_response' = http_response("create_student", StatusBadRequest, "Email exists")
              /\ UNCHANGED << students_table, next_student_id >>
         ELSE /\ students_table' = students_table \cup {[id |-> next_student_id, email |-> email]}
              /\ next_student_id' = next_student_id + 1
              /\ last_response' = http_response("create_student", StatusCreated, "")
    /\ UNCHANGED << foreign_keys, grades_table, next_grade_id, create_grade >>

\* delete_student -> StudentRepository.delete: 404 when there is no such
\* row; else session.delete and commit.  The model Student declares no
\* relationship and no cascade, so the session sends one DELETE for the
\* students row: a database that enforces the foreign key of
\* grades.student_id rejects it while a grade refers to the row
\* (IntegrityError, answered by the generic handler with 500), a database
\* that does not enforce it removes the row and keeps the grades.
DeleteStudent ==
    /\ \E student_id \in StudentIds :
         LET db_obj == session_get(students_table, student_id) IN
         IF db_obj = NoRow
         THEN /\ last_response' = http_response("delete_student", StatusNotFound, "Student does not exist")
              /\ UNCHANGED students_table
         ELSE IF foreign_keys /\ \E g \in grades_table : g.student_id = student_id
         THEN /\ last_response' = http_response("delete_student", StatusError, "Internal Server Error")
              /\ UNCHANGED students_table
         ELSE /\ students_table' = students_table \ {db_obj}
              /\ last_response' = http_response("delete_student", StatusOK, "")
    /\ UNCHANGED << foreign_keys, grades_table, next_student_id, next_grade_id, create_grade >>

\* create_grade, lines 29-36 and 49-54: session.get(Student, student_id);
\* without a row the handler raises HTTPException(404) inside its own try,
\* whose "except Exception" catches it, rolls back and raises
\* HTTPException(500, detail=str(e)).
CreateGradeCheck ==
    /\ create_grade.pc = "idle"
    /\ next_grade_id <= MaxGrades
    /\ \E student_id \in StudentIds, score \in Scores, text \in str_of_not_found :
         LET student == session_get(students_table, student_id)
             request == [create_grade EXCEPT !.student_id = student_id, !.score = score,
                                             !.student = student]
         IN create_grade' =
              IF student = NoRow
              THEN [request EXCEPT !.pc = "failed", !.status = StatusError, !.detail = text]
              ELSE [request EXCEPT !.pc = "checked"]
    /\ UNCHANGED << foreign_keys, students_table, grades_table, next_student_id, next_grade_id, last_response >>

\* create_grade, lines 38-48: Grade(**data), add, commit, refresh.  The
\* INSERT of a grade whose student row is gone meanwhile is rejected by a
\* database that enforces the foreign key (IntegrityError, caught by the
\* except branch: 500) and accepted by one that does not.
CreateGradeCommit ==
    /\ create_grade.pc = "checked"
    /\ LET grade == [id |-> next_grade_id, student_id |-> create_grade.student_id,
                     score |-> create_grade.score]
       IN IF foreign_keys /\ session_get(students_table, create_grade.student_id) = NoRow
          THEN /\ create_grade' = [create_grade EXCEPT !.pc = "failed",
                                       !.status = StatusError, !.detail = "IntegrityError"]
               /\ UNCHANGED << grades_table, next_grade_id >>
          ELSE /\ grades_table' = grades_table \cup {grade}
               /\ next_grade_id' = next_grade_id + 1
               /\ create_grade' = [create_grade EXCEPT !.pc = "done", !.grade = grade,
                                       !.status = StatusOK,
                                       !.detail = "Grade created successfully"]
    /\ UNCHANGED << foreign_keys, students_table, next_student_id, last_response >>

\* The create_grade handler has answered.
CreateGradeReturn ==
    /\ create_grade.pc \in {"done", "failed"}
    /\ create_grade' = IdleCreateGrade
    /\ UNCHANGED << foreign_keys, students_table, grades_table, next_student_id, next_grade_id, last_response >>

\* update_grade: 404 "Grade not found" without a row, re-raised as it is by
\* "except HTTPException: raise"; else the fields of GradeUpdate that were
\* sent are set (student_id is not a field of GradeUpdate) and committed.
UpdateGrade ==
    /\ \E grade_id \in GradeIds, score \in Scores :
         LET grade == session_get(grades_table, grade_id) IN
         IF grade = NoRow
         THEN /\ last_response' = http_response("update_grade", StatusNotFound, "Grade not found")
              /\ UNCHANGED grades_table
         ELSE /\ grades_table' = (grades_table \ {grade}) \cup {[grade EXCEPT !.score = score]}
              /\ last_response' = http_response("update_grade", StatusOK, "Grade updated successfully")
    /\ UNCHANGED << foreign_keys, students_table, next_student_id, next_grade_id, create_grade >>

\* delete_grade: 404 "Grade not found" without a row, else the row is
\* deleted and the deletion committed.
DeleteGrade ==
    /\ \E grade_id \in GradeIds :
         LET grade == session_get(grades_table, grade_id) IN
         IF grade = NoRow
         THEN /\ last_response' = http_response("delete_grade", StatusNotFound, "Grade not found")
              /\ UNCHANGED grades_table
         ELSE /\ grades_table' = grades_table \ {grade}
              /\ last_response' = http_response("delete_grade", StatusOK, "Grade deleted successfully")
    /\ UNCHANGED << foreign_keys, students_table, next_student_id, next_grade_id, create_grade >>
(***************************************************************************)
(* The service: construction, refresh_knowledge, query_chatbot.            *)
(***************************************************************************)
\* FAISS.from_documents(documents, embeddings) builds the index from the
\* embeddings of the documents and takes its dimension from the first of
\* them, len(embeddings[0]): with no document it raises IndexError.
index_raises(documents) == documents = <<>>

\* Mutant: the handlers run on worker threads and start whatever else runs.
event_loop_shared(occupant) == TRUE

\* A handler's run starts or resumes on the event loop only when no other
\* run occupies it: refresh_knowledge and query_chatbot are coroutines
\* ("async def") of the one loop, and a run ends only at an await or at the
\* return.  refresh_knowledge calls refresh_vector_store without an await.
event_loop_free(occupant) == occupant = "none"

\* Mutant: a build that fails leaves the service without an index.
store_cleared_on_failure(store) == NoStore

\* self.vector_store after FAISS.from_documents has raised: the assignment
\* of line 40 is not reached and nothing else assigns the attribute.
store_after_failed_build(store) == store

\* AIService.__init__ at import of the router module: the first build.  A
\* construction that raises leaves no service to take requests.
ServiceInit ==
    /\ api_key_set \in BOOLEAN
    /\ \E d \in 1..Len(Datasets) :
         LET r == process_data_to_documents(Datasets[d].students, Datasets[d].courses) IN
         /\ ~r.raised
         /\ ~index_raises(r.docs)
         /\ vector_store = published_store(0, r.docs)
    /\ last_update_time = 0
    /\ clock = 1
    /\ running = "none"
    /\ refresh = [r \in RefreshRequests |-> IdleRefresh]
    /\ chat = IdleChat

\* The service state used while the pure functions are applied on their own.
ServiceDormant ==
    /\ api_key_set = TRUE
    /\ vector_store = published_store(0, CandidatePool)
    /\ last_update_time = 0
    /\ clock = 1
    /\ running = "none"
    /\ refresh = [r \in RefreshRequests |-> IdleRefresh]
    /\ chat = IdleChat

\* refresh_knowledge -> refresh_vector_store -> initialize_vector_store: the
\* two reads of the record supplier and _process_data_to_documents.  An
\* exception leaves initialize_vector_store and becomes the handler's 500.
RefreshBuild ==
    /\ event_loop_free(running)
    /\ vector_store.id < MaxBuilds
    /\ \E h \in RefreshRequests, d \in 1..Len(Datasets) :
         /\ refresh[h].pc = "idle"
         /\ LET r == process_data_to_documents(Datasets[d].students, Datasets[d].courses)
                fetched == [refresh[h] EXCEPT !.students_data = Datasets[d].students,
                                              !.courses_data = Datasets[d].courses]
            IN refresh' =
                 [refresh EXCEPT ![h] =
                      IF r.raised
                      THEN [fetched EXCEPT !.pc = "failed", !.error = r.error,
                                           !.status = StatusError]
                      ELSE [fetched EXCEPT !.pc = "processed", !.documents = r.docs]]
    /\ running' = "refresh"
    /\ UNCHANGED << api_key_set, vector_store, last_update_time, clock, chat >>

\* self.vector_store = FAISS.from_documents(documents, self.embeddings)
RefreshIndex ==
    /\ \E h \in RefreshRequests :
         /\ refresh[h].pc = "processed"
         /\ ~index_raises(refresh[h].documents)
         /\ vector_store' = published_store(vector_store.id + 1, refresh[h].documents)
         /\ refresh' = [refresh EXCEPT ![h].pc = "indexed"]
    /\ UNCHANGED << api_key_set, last_update_time, clock, running, chat >>

\* FAISS.from_documents raises, for want of a document or in the embedding
\* or the index construction: nothing is assigned and the handler answers 500.
RefreshIndexFail ==
    /\ \E h \in RefreshRequests :
         /\ refresh[h].pc = "processed"
         /\ refresh' = [refresh EXCEPT ![h].pc = "failed",
                            ![h].error = IF index_raises(refresh[h].documents)
                                         THEN "IndexError" ELSE "IndexBuildError",
                            ![h].status = StatusError]
    /\ vector_store' = store_after_failed_build(vector_store)
    /\ UNCHANGED << api_key_set, last_update_time, clock, running, chat >>

\* self.last_update_time = datetime.now(); _save_vector_store_stats prints;
\* the handler builds its success body.
RefreshStamp ==
    /\ \E h \in RefreshRequests :
         /\ refresh[h].pc = "indexed"
         /\ refresh' = [refresh EXCEPT ![h].pc = "done", ![h].status = StatusOK]
    /\ last_update_time' = clock
    /\ clock' = clock + 1
    /\ UNCHANGED << api_key_set, vector_store, running, chat >>

\* The handler returns its response and leaves the event loop.
RefreshReturn ==
    /\ \E h \in RefreshRequests :
         /\ refresh[h].pc \in {"done", "failed"}
         /\ refresh' = [refresh EXCEPT ![h] = IdleRefresh]
    /\ running' = "none"
    /\ UNCHANGED << api_key_set, vector_store, last_update_time, clock, chat >>

\* The handler's except branch: HTTPException(500, "Error processing query: ...").
chat_failed(c, outcome) ==
    [c EXCEPT !.pc = "failed", !.outcome = outcome, !.status = StatusError]

\* Mutant: a failed request is sent once more before the failure is raised.
groq_failed_retry(c, outcome) ==
    IF c.requests < 2
    THEN [c EXCEPT !.requests = c.requests + 1, !.net = "pending"]
    ELSE chat_failed(c, outcome)

\* An exception of query_groq is raised to chat, which does not catch it, and
\* reaches the handler's except branch; nothing is sent again.
groq_failed(c, outcome) == chat_failed(c, outcome)

\* query_chatbot -> AIService.chat, steps 1 to 6, and query_groq up to the
\* await of client.post: the first run of the coroutine on the event loop.
ChatStart ==
    /\ chat.pc = "idle" /\ event_loop_free(running)
    /\ \E req \in ChatRequests, raw_docs \in retrievals(vector_store) :
         LET query_type == classify_query_type(req.query)
             optimized == optimize_for_relevance(req.query, raw_docs)
             context == prioritize_context(optimized.docs, query_type)
             few_shot_examples == generate_few_shot_examples(query_type)
             system_message ==
                 get_system_message(req.user_role)
                 \o (IF few_shot_examples # <<>>
                     THEN << "example_intro" >> \o few_shot_examples ELSE <<>>)
             metadata == [recent_updates |-> strftime_seconds(last_update_time),
                          query_type |-> query_type]
             started == [chat EXCEPT !.query = req.query, !.user_role = req.user_role,
                                     !.query_type = query_type,
                                     !.retriever = vector_store, !.raw_docs = raw_docs]
         IN chat' =
              IF optimized.raised
              THEN chat_failed(started, Raised(optimized.error, "division by zero", 0, "", ""))
              ELSE LET prepared ==
                         [started EXCEPT !.optimized_docs = optimized.docs,
                                         !.context = context,
                                         !.system_message = system_message,
                                         !.prompt = format_rag_prompt(req.query, context, metadata)]
                   IN IF ~api_key_set
                      THEN chat_failed(prepared,
                               Raised("ValueError", "GROQ_API_KEY is not set", 0, "", ""))
                      ELSE [prepared EXCEPT !.pc = "awaiting", !.requests = 1,
                                            !.net = "pending"]
    /\ running' = IF chat'.pc = "awaiting" THEN "none" ELSE "chat"
    /\ UNCHANGED << api_key_set, vector_store, last_update_time, clock, refresh >>

\* The coroutine resumes when the endpoint answers or the 30 s timeout
\* expires: the rest of query_groq, then step 8 of chat and the handler's
\* return, or the exception on its way to the handler's except branch.
ChatAnswer ==
    /\ chat.pc = "awaiting" /\ event_loop_free(running)
    /\ \E answer \in Answers :
         LET outcome == query_groq_outcome(answer)
             received == [chat EXCEPT !.response = answer,
                             !.net = IF answer.kind = "timeout" THEN "abandoned" ELSE "answered"]
         IN chat' =
              IF outcome.raised
              THEN groq_failed(received, outcome)
              ELSE [received EXCEPT !.pc = "done", !.outcome = outcome,
                                !.status = StatusOK,
                                !.envelope = answer_envelope(outcome.text, chat.optimized_docs,
                                                 chat.query_type, chat.context,
                                                 last_update_time)]
    /\ running' = IF chat'.pc = "awaiting" THEN "none" ELSE "chat"
    /\ UNCHANGED << api_key_set, vector_store, last_update_time, clock, refresh >>

\* The handler returns its response, or raises its HTTPException, and
\* leaves the event loop.
ChatReturn ==
    /\ chat.pc \in {"done", "failed"}
    /\ chat' = IdleChat
    /\ running' = "none"
    /\ UNCHANGED << api_key_set, vector_store, last_update_time, clock, refresh >>

(***************************************************************************)
(* Specifications.                                                         *)
(***************************************************************************)
Init == ServiceInit /\ PureIdle /\ StoreDormant

Next ==
    \/ RefreshBuild /\ UNCHANGED << pure_vars, store_vars >>
    \/ RefreshIndex /\ UNCHANGED << pure_vars, store_vars >>
    \/ RefreshIndexFail /\ UNCHANGED << pure_vars, store_vars >>
    \/ RefreshStamp /\ UNCHANGED << pure_vars, store_vars >>
    \/ RefreshReturn /\ UNCHANGED << pure_vars, store_vars >>
    \/ ChatStart /\ UNCHANGED << pure_vars, store_vars >>
    \/ ChatAnswer /\ UNCHANGED << pure_vars, store_vars >>
    \/ ChatReturn /\ UNCHANGED << pure_vars, store_vars >>

Spec == Init /\ [][Next]_vars

PureInit == ServiceDormant /\ PureInputs /\ StoreDormant

PureNext ==
    \/ Classify /\ UNCHANGED << service_vars, store_vars >>
    \/ Optimize /\ UNCHANGED << service_vars, store_vars >>
    \/ Render /\ UNCHANGED << service_vars, store_vars >>

PureSpec == PureInit /\ [][PureNext]_vars

StoreSpecInit == ServiceDormant /\ PureIdle /\ StoreInit

StoreNext ==
    \/ CreateStudent /\ UNCHANGED << service_vars, pure_vars >>
    \/ DeleteStudent /\ UNCHANGED << service_vars, pure_vars >>
    \/ CreateGradeCheck /\ UNCHANGED << service_vars, pure_vars >>
    \/ CreateGradeCommit /\ UNCHANGED << service_vars, pure_vars >>
    \/ CreateGradeReturn /\ UNCHANGED << service_vars, pure_vars >>
    \/ UpdateGrade /\ UNCHANGED << service_vars, pure_vars >>
    \/ DeleteGrade /\ UNCHANGED << service_vars, pure_vars >>

StoreSpec == StoreSpecInit /\ [][StoreNext]_vars

(***************************************************************************)
(* Properties of the query classifier (checked under PureSpec).            *)
(***************************************************************************)
CategoryOrder ==
    << [name |-> "comparison", keywords |-> ComparisonKeywords],
       [name |-> "ranking", keywords |-> RankingKeywords],
       [name |-> "analytics", keywords |-> AnalyticsKeywords],
       [name |-> "identification", keywords |-> IdentificationKeywords],
       [name |-> "temporal", keywords |-> TemporalKeywords] >>

\* The categories with a keyword that occurs in the lower-cased query.
MatchingCategories(query) ==
    { k \in 1..Len(CategoryOrder) :
        \E w \in 1..Len(CategoryOrder[k].keywords) :
            str_in(CategoryOrder[k].keywords[w], lower(query)) }

Classified == p_op = "classify" /\ p_pc = "done"

\* C1: classify returns one of the six query types, and it is the first
\* category, in the order comparison, ranking, analytics, identification,
\* temporal, with a keyword matching the lower-cased query; general when no
\* category matches.
C1_ClassifyFirstMatch ==
    Classified =>
        /\ p_result.query_type \in
             {"comparison", "ranking", "analytics", "identification", "temporal", "general"}
        /\ LET hits == MatchingCategories(p_query) IN
           IF hits = {} THEN p_result.query_type = "general"
           ELSE \E k \in hits :
                  /\ \A j \in hits : k <= j
                  /\ p_result.query_type = CategoryOrder[k].name

\* A query matching comparison and ranking keywords has been classified
\* comparison.
C1_Witness ==
    /\ Classified
    /\ {1, 2} \subseteq MatchingCategories(p_query)
    /\ p_result.query_type = "comparison"

(***************************************************************************)
(* Properties of the relevance optimizer (checked under PureSpec).         *)
(***************************************************************************)
Optimized == p_op = "optimize" /\ p_pc = "done"

\* A returned chunk without its score: the candidate it was made from.
Candidate(doc) == [page_content |-> doc.page_content, metadata |-> doc.metadata]

\* The place of a returned chunk in the candidate sequence.
CandidateIndex(doc) == CHOOSE k \in 1..Len(p_docs) : p_docs[k] = Candidate(doc)

\* C2: optimize does not fail, returns at most 3 chunks, and every returned
\* chunk has a score and the score is not 0.
C2_AtMostThreeNoZero ==
    Optimized =>
        /\ ~p_result.raised
        /\ Len(p_result.docs) <= 3
        /\ \A i \in 1..Len(p_result.docs) :
             /\ "relevance_score" \in DOMAIN p_result.docs[i]
             /\ p_result.docs[i].relevance_score.num # 0

\* Four candidates matched the query and three chunks were returned.
C2_Witness ==
    /\ Optimized
    /\ Len(p_docs) = 4
    /\ \A i \in 1..4 : matching_terms(query_terms_of(p_query), p_docs[i]) > 0
    /\ Len(p_result.docs) = 3

\* The empty query with candidates: nothing is returned and nothing fails.
C2_EmptyQueryReached ==
    Optimized /\ p_query = <<>> /\ Len(p_docs) > 0 /\ p_result.docs = <<>>

\* C3: the returned chunks are in descending order of score, chunks of equal
\* score are in their candidate order, and no candidate left out has a
\* strictly higher score than a returned chunk.
C3_SortedStableCut ==
    Optimized =>
        LET out == p_result.docs
            terms == query_terms_of(p_query)
        IN /\ \A i, j \in 1..Len(out) :
                i < j => ~FracGT(out[j].relevance_score, out[i].relevance_score)
           /\ \A i, j \in 1..Len(out) :
                (i < j /\ FracEQ(out[i].relevance_score, out[j].relevance_score))
                    => CandidateIndex(out[i]) < CandidateIndex(out[j])
           /\ \A k \in 1..Len(p_docs) :
                (\A i \in 1..Len(out) : Candidate(out[i]) # p_docs[k])
                    => \A i \in 1..Len(out) :
                          matching_terms(terms, p_docs[k]) * out[i].relevance_score.den
                              <= out[i].relevance_score.num * Cardinality(terms)

\* Three chunks were returned of four matching candidates, two of them with
\* equal score and one with a different score.
C3_Witness ==
    /\ Optimized
    /\ Len(p_docs) = 4
    /\ \A i \in 1..4 : matching_terms(query_terms_of(p_query), p_docs[i]) > 0
    /\ Len(p_result.docs) = 3
    /\ \E i, j \in 1..3 :
         i < j /\ FracEQ(p_result.docs[i].relevance_score, p_result.docs[j].relevance_score)
    /\ \E i, j \in 1..3 :
         FracGT(p_result.docs[i].relevance_score, p_result.docs[j].relevance_score)

\* The distinct lower-cased whitespace-separated terms of a query.
DistinctTerms(query) == split_set(lower(query))

\* C4 as stated: the score of a returned chunk is the number of distinct
\* query terms that are substrings of the chunk text, divided by the number
\* of distinct query terms, and lies in [0, 1].
C4_ScoreOverChunkText ==
    Optimized =>
        \A i \in 1..Len(p_result.docs) :
            LET doc == p_result.docs[i]
                terms == DistinctTerms(p_query)
                hits == { t \in terms : str_in(t, doc.page_content) }
            IN /\ FracEQ(doc.relevance_score, Fraction(Cardinality(hits), Cardinality(terms)))
               /\ 0 <= doc.relevance_score.num
               /\ doc.relevance_score.num <= doc.relevance_score.den

\* C4 amended: the score of a returned chunk is the number of distinct
\* query terms that are substrings of the lower-cased chunk text, divided by
\* the number of distinct query terms, and lies in (0, 1].
C4_ScoreOverLoweredChunkText ==
    Optimized =>
        \A i \in 1..Len(p_result.docs) :
            LET doc == p_result.docs[i]
                terms == DistinctTerms(p_query)
                hits == { t \in terms : str_in(t, lower(doc.page_content)) }
            IN /\ Cardinality(terms) > 0
               /\ FracEQ(doc.relevance_score, Fraction(Cardinality(hits), Cardinality(terms)))
               /\ 0 < doc.relevance_score.num
               /\ doc.relevance_score.num <= doc.relevance_score.den

\* A chunk was returned whose text holds a query term in another letter
\* case only, with a score below 1.
C4_Witness ==
    /\ Optimized
    /\ \E i \in 1..Len(p_result.docs) :
         \E t \in DistinctTerms(p_query) :
            /\ str_in(t, lower(p_result.docs[i].page_content))
            /\ ~str_in(t, p_result.docs[i].page_content)
            /\ p_result.docs[i].relevance_score.num < p_result.docs[i].relevance_score.den

(***************************************************************************)
(* Properties of the service (checked under Spec).                         *)
(***************************************************************************)
Range(s) == { s[i] : i \in 1..Len(s) }

\* C5: the chunks a query retrieved are the k nearest (k = 8, or all when
\* there are fewer) of one complete build: all of them documents of that
\* build, none twice; the index a query can read is never a part of a build.
C5_RetrievalFromOneSnapshot ==
    /\ \E b \in CompleteBuilds : vector_store.docs = b
    /\ chat.pc # "idle" =>
         \E b \in CompleteBuilds :
            /\ chat.retriever.docs = b
            /\ Len(chat.raw_docs) = Min(8, Len(b))
            /\ Range(chat.raw_docs) \subseteq Range(b)
            /\ \A i, j \in 1..Len(chat.raw_docs) :
                 i # j => chat.raw_docs[i] # chat.raw_docs[j]

\* A query is suspended on the completion call while a rebuild has
\* published another index; its chunks are those of the index it read.
C5_Witness ==
    /\ chat.pc = "awaiting"
    /\ \E h \in RefreshRequests : refresh[h].pc = "indexed"
    /\ chat.retriever.id # vector_store.id
    /\ chat.retriever.docs # vector_store.docs
    /\ Len(chat.raw_docs) > 1

\* The (class, message) pairs of the failures of the completion call other
\* than a timeout.
OtherFailures ==
    { << query_groq_outcome(a).type, query_groq_outcome(a).message >> :
        a \in { x \in Answers : x.kind # "timeout" /\ query_groq_outcome(x).raised } }

\* C6: after a timeout of the completion request the call has failed with
\* an error no other failure of the call raises, the request is abandoned,
\* and the query has failed with no answer envelope.
C6_TimeoutFails ==
    (chat.response.kind = "timeout") =>
        /\ chat.response.waited = 30
        /\ chat.pc = "failed"
        /\ chat.outcome.raised
        /\ << chat.outcome.type, chat.outcome.message >> \notin OtherFailures
        /\ chat.net = "abandoned"
        /\ chat.requests = 1
        /\ chat.envelope = NoEnvelope
        /\ chat.status # 200

C6_Witness ==
    /\ chat.response.kind = "timeout"
    /\ chat.pc = "failed"
    /\ chat.outcome.message = "Request to Groq API timed out"

\* C7 as stated: a non-success status makes the call fail with the error
\* that names the status and carries the response body, parsed when the
\* body is JSON and as raw text otherwise.
C7_UpstreamErrorCarriesBody ==
    (chat.response.kind = "response" /\ chat.response.status # 200) =>
        /\ chat.pc = "failed"
        /\ chat.outcome.raised
        /\ chat.outcome.message = "Error from Groq API"
        /\ chat.outcome.status = chat.response.status
        /\ chat.outcome.detail = chat.response.body.text
        /\ chat.outcome.detail_form = IF chat.response.body.is_json THEN "json" ELSE "text"

\* The completion text of a body of the expected shape.
HasCompletionShape(json) ==
    /\ "choices" \in DOMAIN json
    /\ Len(json.choices) >= 1
    /\ "message" \in DOMAIN json.choices[1]
    /\ "content" \in DOMAIN json.choices[1].message

\* The (class, message) pairs of a timeout and of the non-success statuses.
TimeoutAndUpstreamFailures ==
    { << query_groq_outcome(a).type, query_groq_outcome(a).message >> :
        a \in { x \in Answers : x.kind = "timeout" \/ x.status # 200 } }

C8_FirstChoiceReached ==
    /\ chat.pc = "done"
    /\ Len(chat.response.body.json.choices) = 2
    /\ chat.envelope.answer = "Ann has the top score."

\* C9: a call of the completion client sends at most one request; after a
\* failure nothing is pending or sent again and the query has failed.
C9_NoRetry ==
    /\ chat.requests <= 1
    /\ (chat.response.kind # "none" /\ query_groq_outcome(chat.response).raised) =>
          /\ chat.pc = "failed"
          /\ chat.requests = 1
          /\ chat.net # "pending"
          /\ chat.outcome = query_groq_outcome(chat.response)
          /\ chat.status = 500

\* A non-success answer has made the query fail after one request.
C9_Witness ==
    /\ chat.pc = "failed"
    /\ chat.response.kind = "response"
    /\ chat.response.status = 500
    /\ chat.requests = 1

(***************************************************************************)
(* Properties of the context prioritizer (checked under PureSpec).         *)
(***************************************************************************)
Rendered == p_op = "render" /\ p_pc = "done"

SentinelText == <<"N","o"," ","r","e","l","e","v","a","n","t"," ","i","n","f","o","r","m","a","t","i","o","n"," ","f","o","u","n","d"," ","i","n"," ","t","h","e"," ","d","a","t","a","b","a","s","e",".">>

\* C10: render of the empty sequence is the sentinel sentence, whatever the
\* query type.
C10_EmptyRendersSentinel ==
    (Rendered /\ p_docs = <<>>) =>
        /\ p_type \in QueryTypes
        /\ p_result.context = SentinelText

\* The empty sequence has been rendered for a ranking query.
C10_Witness ==
    /\ Rendered /\ p_docs = <<>> /\ p_type = "ranking"
    /\ Len(p_result.context) = 46

\* The marker and the separator of the rendered context, as written.
MarkerText == <<"[","H","I","G","H"," ","R","E","L","E","V","A","N","C","E","]"," ">>
BlankLine == << "\n", "\n" >>

\* The text holds one of the characters 0 to 9.
HoldsDigit(text) ==
    \E k \in 1..Len(text) : text[k] \in {"0", "1", "2", "3", "4", "5", "6", "7", "8", "9"}

\* The score of a scored chunk is strictly above 7/10; a chunk without a
\* score counts as 0.
ScoreAboveSevenTenths(doc) ==
    /\ "relevance_score" \in DOMAIN doc
    /\ 10 * doc.relevance_score.num > 7 * doc.relevance_score.den

RECURSIVE JoinedBy(_, _)
JoinedBy(sep, parts) ==
    IF Len(parts) = 0 THEN <<>>
    ELSE IF Len(parts) = 1 THEN parts[1]
    ELSE parts[1] \o sep \o JoinedBy(sep, Tail(parts))

\* C11: for a ranking query the rendered context is the chunks in order,
\* separated by a blank line, each with the marker in front exactly when its
\* text holds a digit, whatever its score.
C11_RankingMarksDigits ==
    (Rendered /\ p_type = "ranking" /\ p_docs # <<>>) =>
        p_result.context =
            JoinedBy(BlankLine,
                [i \in 1..Len(p_docs) |->
                    IF HoldsDigit(p_docs[i].page_content)
                    THEN MarkerText \o p_docs[i].page_content
                    ELSE p_docs[i].page_content])

\* A ranking context was rendered from a chunk without a digit and with
\* score 1, left verbatim, and a chunk with a digit and no score, marked.
C11_Witness ==
    /\ Rendered /\ p_type = "ranking" /\ Len(p_docs) = 2
    /\ ~HoldsDigit(p_docs[1].page_content)
    /\ "relevance_score" \in DOMAIN p_docs[1]
    /\ p_docs[1].relevance_score = Fraction(1, 1)
    /\ HoldsDigit(p_docs[2].page_content)
    /\ "relevance_score" \notin DOMAIN p_docs[2]
    /\ p_result.context = p_docs[1].page_content \o BlankLine \o MarkerText
                          \o p_docs[2].page_content

\* C12: for every query type but ranking the rendered context is the chunks
\* in order, each with the marker in front exactly when its score is
\* strictly above 0.7, whether or not its text holds a digit.
C12_OthersMarkAboveSevenTenths ==
    (Rendered /\ p_type # "ranking" /\ p_docs # <<>>) =>
        p_result.context =
            JoinedBy(BlankLine,
                [i \in 1..Len(p_docs) |->
                    IF ScoreAboveSevenTenths(p_docs[i])
                    THEN MarkerText \o p_docs[i].page_content
                    ELSE p_docs[i].page_content])

\* A context of another type was rendered from a chunk with a digit and
\* score exactly 0.7, left verbatim, and a chunk without a digit and score
\* 0.75, marked.
C12_Witness ==
    /\ Rendered /\ p_type = "general" /\ Len(p_docs) = 2
    /\ HoldsDigit(p_docs[1].page_content)
    /\ "relevance_score" \in DOMAIN p_docs[1]
    /\ p_docs[1].relevance_score = Fraction(7, 10)
    /\ ~HoldsDigit(p_docs[2].page_content)
    /\ "relevance_score" \in DOMAIN p_docs[2]
    /\ p_docs[2].relevance_score = Fraction(3, 4)
    /\ p_result.context = p_docs[1].page_content \o BlankLine \o MarkerText
                          \o p_docs[2].page_content

\* A chunk without a score was rendered verbatim for a query type other
\* than ranking.
C12_MissingScoreReached ==
    /\ Rendered /\ p_type = "temporal" /\ Len(p_docs) = 1
    /\ "relevance_score" \notin DOMAIN p_docs[1]
    /\ p_result.context = p_docs[1].page_content

(***************************************************************************)
(* Properties of the answer envelope (checked under Spec).                 *)
(***************************************************************************)
Answered == chat.pc = "done"

\* The record a chunk belongs to, as its metadata tells: a student record
\* with a student id or a course record with a course id.
IdentifiesRecord(doc) ==
    \/ doc.metadata.type = "student_record" /\ "student_id" \in DOMAIN doc.metadata
    \/ doc.metadata.type = "course_record" /\ "course_id" \in DOMAIN doc.metadata
RecordKind(doc) == IF doc.metadata.type = "student_record" THEN "student" ELSE "course"
RecordId(doc) ==
    IF doc.metadata.type = "student_record" THEN doc.metadata.student_id
    ELSE doc.metadata.course_id

\* C13: the sources of an answer are, in order, one entry for each optimized
\* chunk whose metadata identifies a student or course record, with the
\* type, id and name of that record; chunks of one record are not merged.
C13_SourcePerChunk ==
    Answered =>
        LET identified == SelectSeq(chat.optimized_docs, IdentifiesRecord)
            sources == chat.envelope.sources
        IN /\ Len(sources) = Len(identified)
           /\ \A i \in 1..Len(identified) :
                /\ sources[i].type = RecordKind(identified[i])
                /\ sources[i].id = RecordId(identified[i])
                /\ sources[i].name = identified[i].metadata.name

\* An answer whose optimized chunks hold two chunks of one student has two
\* source entries with that student's type and id.
C13_Witness ==
    /\ Answered
    /\ \E i, j \in 1..Len(chat.optimized_docs) :
         /\ i < j
         /\ chat.optimized_docs[i].metadata.name = chat.optimized_docs[j].metadata.name
         /\ chat.optimized_docs[i].metadata.chunk_number
              # chat.optimized_docs[j].metadata.chunk_number
         /\ chat.envelope.sources[i].type = "student"
         /\ chat.envelope.sources[j].type = "student"
         /\ chat.envelope.sources[i].id = chat.envelope.sources[j].id

\* The distinct ids of the source entries of one type.
SourceIds(sources, type) ==
    { sources[i].id : i \in { k \in 1..Len(sources) : sources[k].type = type } }

\* C14: student_count and course_count of an answer are the numbers of
\* distinct ids among its student and its course source entries, so their
\* sum is at most the number of sources, which is at most 3.
C14_CountsAreDistinctIds ==
    Answered =>
        LET sources == chat.envelope.sources
            metadata == chat.envelope.metadata
        IN /\ metadata.student_count = Cardinality(SourceIds(sources, "student"))
           /\ metadata.course_count = Cardinality(SourceIds(sources, "course"))
           /\ metadata.student_count + metadata.course_count <= Len(sources)
           /\ Len(sources) <= 3

\* An answer with three sources, two of them chunks of one student: the
\* counts add up to two.
C14_Witness ==
    /\ Answered
    /\ Len(chat.envelope.sources) = 3
    /\ chat.envelope.metadata.student_count = 2
    /\ chat.envelope.metadata.course_count = 0

\* An answer with sources of two students and a course.
C14_CourseCounted ==
    /\ Answered
    /\ chat.envelope.metadata.student_count = 2
    /\ chat.envelope.metadata.course_count = 1

\* The first category, in the order of CategoryOrder, with a keyword in the
\* lower-cased query; general when there is none.
FirstCategory(query) ==
    LET hits == MatchingCategories(query) IN
    IF hits = {} THEN "general"
    ELSE CategoryOrder[CHOOSE k \in hits : \A j \in hits : k <= j].name

StyledTypes == {"comparison", "ranking", "analytics"}
ExampleBlocks == {"comparison_example", "ranking_example", "analytics_example"}
ExampleOf(type) ==
    IF type = "comparison" THEN {"comparison_example"}
    ELSE IF type = "ranking" THEN {"ranking_example"}
    ELSE IF type = "analytics" THEN {"analytics_example"}
    ELSE {}

\* The context of a query of the given type over the given chunks.
ContextOf(docs, type) ==
    IF docs = <<>> THEN SentinelText
    ELSE JoinedBy(BlankLine,
            [i \in 1..Len(docs) |->
                IF \/ type = "ranking" /\ HoldsDigit(docs[i].page_content)
                   \/ type # "ranking" /\ ScoreAboveSevenTenths(docs[i])
                THEN MarkerText \o docs[i].page_content
                ELSE docs[i].page_content])

\* C15: the query type of a query is the class of its text, and that one
\* type renders the context, selects the example of the system message,
\* selects the style block of the prompt and is reported in the metadata of
\* the answer.
C15_OneQueryType ==
    chat.pc # "idle" =>
        LET type == FirstCategory(chat.query) IN
        /\ chat.query_type = type
        /\ chat.context = ContextOf(chat.optimized_docs, type)
        /\ Range(chat.system_message) \cap ExampleBlocks = ExampleOf(type)
        /\ chat.prompt.style = (IF type \in StyledTypes THEN type ELSE "none")
        /\ Answered => chat.envelope.metadata.query_type = type

\* "Show me the top 5 students in math this semester" has been answered as
\* a ranking query in all four places, a chunk with a digit marked.
C15_Witness ==
    /\ Answered
    /\ chat.query = <<"S","h","o","w"," ","m","e"," ","t","h","e"," ","t","o","p"," ","5"," ","s","t","u","d","e","n","t","s"," ","i","n"," ","m","a","t","h"," ","t","h","i","s"," ","s","e","m","e","s","t","e","r">>
    /\ chat.envelope.metadata.query_type = "ranking"
    /\ chat.prompt.style = "ranking"
    /\ "ranking_example" \in Range(chat.system_message)
    /\ Len(chat.optimized_docs) > 0
    /\ SubSeq(chat.context, 1, Len(MarkerText)) = MarkerText

\* The failures a query can meet after its context is rendered: those of
\* the completion call.
CompletionFailures ==
    { << query_groq_outcome(a).type, query_groq_outcome(a).message >> :
        a \in { x \in Answers : query_groq_outcome(x).raised } }

\* C16: a query none of whose retrieved chunks matches has the sentinel as
\* its context and, the credential being there, sends its one completion
\* request; it fails only if the completion call fails, and its answer has
\* no sources, counts of 0 and the length of the sentinel as context_length.
C16_EmptyContextAnswered ==
    (chat.pc # "idle" /\ chat.optimized_docs = <<>> /\ api_key_set) =>
        /\ chat.context = SentinelText
        /\ chat.prompt.context = SentinelText
        /\ chat.requests = 1
        /\ chat.pc = "failed" =>
              << chat.outcome.type, chat.outcome.message >> \in CompletionFailures
        /\ (chat.response.kind = "response" /\ ~query_groq_outcome(chat.response).raised)
              => Answered
        /\ Answered =>
              /\ chat.envelope.answer = chat.response.body.json.choices[1].message.content
              /\ chat.envelope.sources = <<>>
              /\ chat.envelope.metadata.student_count = 0
              /\ chat.envelope.metadata.course_count = 0
              /\ chat.envelope.metadata.context_length = 46

\* A query that retrieved chunks, none of them matching, has been answered.
C16_Witness ==
    /\ Answered
    /\ chat.query # <<>>
    /\ Len(chat.raw_docs) > 0
    /\ chat.optimized_docs = <<>>
    /\ chat.requests = 1
    /\ chat.envelope.metadata.context_length = 46

\* The empty query has been answered from the sentinel context.
C16_EmptyQueryAnswered ==
    Answered /\ chat.query = <<>> /\ Len(chat.raw_docs) > 0 /\ chat.context = SentinelText

(***************************************************************************)
(* Properties of configuration and of the build (checked under Spec).      *)
(***************************************************************************)
\* C17 as stated: a service without the credential of the completion
\* endpoint takes no query, and no query that was classified, retrieved and
\* given its prompt fails for want of the credential.
C17_CredentialCheckedAtStartup ==
    /\ ~api_key_set => chat.pc = "idle"
    /\ ~(/\ chat.pc = "failed"
         /\ chat.outcome.type = "ValueError"
         /\ chat.query_type # ""
         /\ chat.prompt # NoPrompt)

\* The identity and text fields the builder reads from a record are there.
WellFormedStudent(item) ==
    /\ {"id", "name", "email", "enrollment_date"} \subseteq DOMAIN item
    /\ "grades" \in DOMAIN item =>
          \A g \in 1..Len(item.grades) :
              {"subject", "score", "semester"} \subseteq DOMAIN item.grades[g]
WellFormedCourse(course) ==
    /\ {"id", "name", "department", "description"} \subseteq DOMAIN course
    /\ "statistics" \in DOMAIN course =>
          {"avg_score", "student_count", "pass_rate"} \subseteq DOMAIN course.statistics

\* The build of handler h is past the processing of its batch.
BatchProcessed(h) == refresh[h].pc \in {"processed", "indexed", "done"}

\* C18 as stated: a build whose batch holds a record without a required
\* field does not fail for it; it goes on with the documents of the
\* well-formed records of the batch.
C18_MalformedRecordSkipped ==
    \A h \in RefreshRequests :
      LET build == refresh[h] IN
      (/\ build.pc # "idle"
       /\ \/ \E i \in 1..Len(build.students_data) : ~WellFormedStudent(build.students_data[i])
          \/ \E i \in 1..Len(build.courses_data) : ~WellFormedCourse(build.courses_data[i]))
      => /\ build.error # "KeyError"
         /\ BatchProcessed(h) =>
              build.documents =
                  process_data_to_documents(
                      SelectSeq(build.students_data, WellFormedStudent),
                      SelectSeq(build.courses_data, WellFormedCourse)).docs

\* C19 as stated: a build over no students and no courses does not fail,
\* and publishes an index without documents.
C19_EmptyBuildPublishes ==
    \A h \in RefreshRequests :
      LET build == refresh[h] IN
      (build.pc # "idle" /\ build.students_data = <<>> /\ build.courses_data = <<>>)
      => /\ build.pc # "failed"
         /\ build.pc \in {"indexed", "done"} => vector_store.docs = <<>>

\* The chunks of a list of documents that belong to the record of doc.
ChunksOfRecord(docs, doc) ==
    SelectSeq(docs, LAMBDA d : d.metadata.type = doc.metadata.type
                               /\ d.metadata.name = doc.metadata.name
                               /\ RecordId(d) = RecordId(doc))

\* In a list of documents the chunks of each record carry the numbers
\* 0, 1, ..., n - 1 in their order and all carry total_chunks = n.
NumberedPerRecord(docs) ==
    \A i \in 1..Len(docs) :
        LET mine == ChunksOfRecord(docs, docs[i]) IN
        /\ Len(mine) >= 1
        /\ 0 <= docs[i].metadata.chunk_number
        /\ docs[i].metadata.chunk_number < docs[i].metadata.total_chunks
        /\ \A k \in 1..Len(mine) :
             /\ mine[k].metadata.chunk_number = k - 1
             /\ mine[k].metadata.total_chunks = Len(mine)

\* C20: in the documents of every build and of every published index the
\* chunks of a record are numbered 0 to n - 1 in emission order and carry
\* total_chunks = n >= 1.
C20_ChunkNumbering ==
    /\ NumberedPerRecord(vector_store.docs)
    /\ \A h \in RefreshRequests : NumberedPerRecord(refresh[h].documents)
    /\ chat.pc # "idle" => NumberedPerRecord(chat.retriever.docs)

\* A rebuild has published an index holding the two chunks, 0 and 1 of 2,
\* of a student whose text is longer than chunk_size, and a one-chunk record.
C20_Witness ==
    /\ vector_store.id > 0
    /\ \E h \in RefreshRequests : refresh[h].pc = "done"
    /\ \E i, j \in 1..Len(vector_store.docs) :
         /\ vector_store.docs[i].metadata.chunk_number = 0
         /\ vector_store.docs[i].metadata.total_chunks = 2
         /\ Len(vector_store.docs[i].page_content) > 100
         /\ vector_store.docs[j].metadata.chunk_number = 1
         /\ vector_store.docs[j].metadata.total_chunks = 2
    /\ \E i \in 1..Len(vector_store.docs) : vector_store.docs[i].metadata.total_chunks = 1

(***************************************************************************)
(* Properties of the system instruction (checked under Spec).              *)
(***************************************************************************)
\* The role-selected message: the base persona, then the block of the role.
RoleMessage(role) ==
    IF role = "teacher" THEN << "base_message", "teacher_block" >>
    ELSE IF role = "student" THEN << "base_message", "student_block" >>
    ELSE IF role = "admin" THEN << "base_message", "admin_block" >>
    ELSE << "base_message" >>

RoleBlocks == {"teacher_block", "student_block", "admin_block"}

\* The system instruction without what follows the role-selected message.
RolePart(message) ==
    SelectSeq(message, LAMBDA b : b \in RoleBlocks \cup {"base_message"})
\* What the system instruction holds besides persona and role block.
AppendedPart(message) ==
    SelectSeq(message, LAMBDA b : b \notin RoleBlocks \cup {"base_message"})

\* C21: the system instruction ends with the introduction and the example
\* of the query type exactly when the type is comparison, ranking or
\* analytics; for the other types nothing follows the role-selected message.
C21_ExampleIffStyledType ==
    chat.pc # "idle" =>
        LET type == FirstCategory(chat.query)
            message == chat.system_message
            role_part == SubSeq(message, 1, Len(RolePart(message)))
        IN /\ role_part = RolePart(message)
           /\ IF type \in StyledTypes
              THEN /\ Len(message) = Len(role_part) + 2
                   /\ message[Len(message) - 1] = "example_intro"
                   /\ { message[Len(message)] } = ExampleOf(type)
              ELSE message = role_part

\* A comparison query was sent with the comparison example appended.
C21_Witness ==
    /\ chat.pc = "awaiting"
    /\ chat.query_type = "comparison"
    /\ chat.system_message[Len(chat.system_message)] = "comparison_example"

\* Queries of a type without example were sent with nothing appended.
C21_NoExampleReached ==
    /\ chat.pc = "awaiting"
    /\ chat.query_type \in {"identification", "general"}
    /\ AppendedPart(chat.system_message) = <<>>

\* C22: the system instruction begins with the base persona, followed by
\* the teacher, student or admin block exactly for these roles and by no
\* role block for any other or no role.
C22_RoleSelectsBlock ==
    chat.pc # "idle" =>
        /\ RolePart(chat.system_message) = RoleMessage(chat.user_role)
        /\ SubSeq(chat.system_message, 1, Len(RoleMessage(chat.user_role)))
              = RoleMessage(chat.user_role)

\* A query of a teacher was sent with the teacher block after the persona.
C22_Witness ==
    /\ chat.pc = "awaiting"
    /\ chat.user_role = "teacher"
    /\ SubSeq(chat.system_message, 1, 2) = << "base_message", "teacher_block" >>

\* Queries with an unknown role and with no role were sent with the persona
\* alone.
C22_OtherRoleReached ==
    /\ chat.pc = "awaiting"
    /\ chat.user_role \in {"guest", ""}
    /\ RolePart(chat.system_message) = << "base_message" >>


\* The index a query read has been replaced by a later rebuild.
SnapshotReplaced == chat.retriever.id # vector_store.id

\* C23: in every answer, metadata.last_db_update and the freshness note of
\* the query's prompt name the build time of the index the query's chunks
\* were retrieved from, whatever rebuilds ran meanwhile: the two name the
\* same second, and when that index has been replaced while the query was
\* suspended, last_db_update is not the build time of the replacing index.
\* (Builds have distinct times, and outside a rebuild last_update_time is
\* the build time of the published index.)
C23_StampsNameRetrievedSnapshot ==
    Answered =>
      /\ strftime_seconds(chat.envelope.metadata.last_db_update) = chat.prompt.freshness
      /\ SnapshotReplaced => chat.envelope.metadata.last_db_update # last_update_time

\* The refresh handlers whose rebuild has started and has not returned.
RebuildsInProgress == { h \in RefreshRequests : refresh[h].pc # "idle" }

\* C24: at most one rebuild is in progress at any time; a rebuild that has
\* published finds its own documents in the published index until it
\* returns, and the time stamp recorded when it has finished is the one it
\* took itself, the latest reading of the clock: no step of another rebuild
\* falls between its build, its publication and its time stamp.
C24_OneRebuildAtATime ==
    /\ Cardinality(RebuildsInProgress) <= 1
    /\ \A h \in RefreshRequests :
         /\ refresh[h].pc \in {"indexed", "done"} => vector_store.docs = refresh[h].documents
         /\ refresh[h].pc = "done" => last_update_time = clock - 1

\* A second rebuild, run by the other handler after the first one returned,
\* has published its index and not yet taken its time stamp: the recorded
\* time is still that of the first rebuild and no other rebuild is running.
C24_Witness ==
    \E h, g \in RefreshRequests :
        /\ h # g
        /\ refresh[h].pc = "indexed" /\ refresh[g].pc = "idle"
        /\ vector_store.id = 2 /\ vector_store.docs = refresh[h].documents
        /\ last_update_time = 1
        /\ running = "refresh"

\* A rebuild has started and has neither finished nor failed.
RebuildRunning == \E h \in RefreshRequests : refresh[h].pc \in {"processed", "indexed"}

\* C25 as stated: while a rebuild is in progress a query does not have to
\* wait for it: a query that has arrived can take its first run
\* (classification, retrieval, prompt assembly), and a suspended query whose
\* completion has arrived can resume (response assembly).
C25_QueryProgressesDuringRebuild ==
    RebuildRunning =>
      /\ chat.pc = "idle" => ENABLED ChatStart
      /\ chat.pc = "awaiting" => ENABLED ChatAnswer

\* The published index and its recorded build time.
ActiveSnapshot == << vector_store, last_update_time >>

\* C26: a rebuild fails only before it has published, and every step of a
\* rebuild up to its failure and its return leaves the published index and
\* last_update_time as they were; a query that starts reads the published
\* index as it is, the old one after a failed rebuild.
C26_FailedRebuildKeepsSnapshot ==
    [][ /\ \A h \in RefreshRequests :
             /\ refresh'[h].pc = "failed" /\ refresh[h].pc # "failed"
                  => refresh[h].pc \in {"idle", "processed"}
             /\ ( /\ refresh'[h] # refresh[h]
                  /\ refresh[h].pc \in {"idle", "processed", "failed"}
                  /\ refresh'[h].pc \in {"idle", "processed", "failed"} )
                  => ActiveSnapshot' = ActiveSnapshot
        /\ (chat.pc = "idle" /\ chat'.pc # "idle")
             => chat'.retriever = vector_store /\ ActiveSnapshot' = ActiveSnapshot
      ]_vars

\* After a rebuild that published index 1 at time 1, a second rebuild has
\* failed in the index construction: index 1 and time 1 are still in place.
C26_Witness ==
    \E h \in RefreshRequests :
        /\ refresh[h].pc = "failed" /\ refresh[h].error = "IndexBuildError"
        /\ vector_store.id = 1 /\ last_update_time = 1

\* A query answered from the index of the first rebuild after a later
\* rebuild has failed and returned cannot be told from its state alone; the
\* failures of the three kinds are reached.
C26_FailureKindsReached ==
    \E h \in RefreshRequests :
        /\ refresh[h].pc = "failed" /\ refresh[h].error = "KeyError"
        /\ vector_store.id = 1

\* The number of places of a sequence that hold x.
Occurrences(seq, x) == Cardinality({ i \in 1..Len(seq) : seq[i] = x })

\* C27: every chunk optimize returned to a query is one of the chunks the
\* index retrieved for it, with the same content and metadata, and no
\* retrieved chunk is returned more often than it was retrieved; every source
\* entry of the answer carries the type, id, name and snippet of a retrieved
\* chunk and the score optimize gave to that chunk.
C27_OnlyRetrievedCandidates ==
    chat.pc # "idle" =>
      LET raw == chat.raw_docs
          opt == chat.optimized_docs
      IN /\ \A i \in 1..Len(opt) :
              /\ \E k \in 1..Len(raw) : Candidate(opt[i]) = raw[k]
              /\ Cardinality({ j \in 1..Len(opt) : Candidate(opt[j]) = Candidate(opt[i]) })
                   <= Occurrences(raw, Candidate(opt[i]))
         /\ Len(chat.envelope.sources) <= Len(opt)
         /\ \A s \in 1..Len(chat.envelope.sources) :
              LET entry == chat.envelope.sources[s] IN
              \E k \in 1..Len(raw), i \in 1..Len(opt) :
                  /\ Candidate(opt[i]) = raw[k]
                  /\ IdentifiesRecord(raw[k])
                  /\ entry.type = RecordKind(raw[k]) /\ entry.id = RecordId(raw[k])
                  /\ entry.name = raw[k].metadata.name
                  /\ entry.snippet = snippet(raw[k].page_content)
                  /\ entry.relevance = opt[i].relevance_score

\* An answer with two sources, made from two of three retrieved chunks: the
\* third candidate matched no term of the query and has no source entry.
C27_Witness ==
    /\ Answered
    /\ Len(chat.raw_docs) = 3
    /\ Len(chat.optimized_docs) = 2
    /\ Len(chat.envelope.sources) = 2
    /\ chat.envelope.sources[1].id # chat.envelope.sources[2].id

\* The words of a query: the maximal runs of non-blank characters of the
\* lower-cased query.
WordsOf(query) == split_set(lower(query))

\* The categories one of whose keywords is a word of the query.
KeywordCategories(query) ==
    { k \in 1..Len(CategoryOrder) :
        \E w \in 1..Len(CategoryOrder[k].keywords) :
            CategoryOrder[k].keywords[w] \in WordsOf(query) }

\* C28 as stated: a query none of whose words is a keyword is classified
\* general, and a query is classified into a category only when a keyword
\* of that category is one of its words.
C28_WholeWordKeywords ==
    Classified =>
        /\ KeywordCategories(p_query) = {} => p_result.query_type = "general"
        /\ p_result.query_type # "general" =>
             \E k \in KeywordCategories(p_query) :
                 CategoryOrder[k].name = p_result.query_type

(***************************************************************************)
(* Properties of the students and grades store (checked under StoreSpec).  *)
(***************************************************************************)
\* C29 as stated: after any sequence of student create/delete and grade
\* create/update/delete, the student_id of every stored grade is the id of
\* a stored student.
C29_GradesReferToStudents ==
    \A g \in grades_table : \E s \in students_table : s.id = g.student_id

\* C30 as stated: create_grade for a student_id without a student row is
\* answered 404 "Student not found", the not-found status update_grade and
\* delete_grade give for a missing grade, and has created no grade.
C30_MissingStudentIs404 ==
    (create_grade.pc = "failed" /\ create_grade.student = NoRow)
    => /\ create_grade.status = StatusNotFound
       /\ create_grade.detail = "Student not found"
       /\ create_grade.grade = NoRow
       /\ last_response.detail = "Grade not found" => last_response.status = create_grade.status
====
